---- MODULE Spec2Model ----
(***************************************************************************)
(* A model of the lead-source client (bdr_ai/apollo_api.py: retry wrapper, *)
(* one-slot disk cache, paginated fetch) and of the lead scoring engine    *)
(* (bdr_ai/process_leads.py).                                              *)
(*                                                                         *)
(* Python dicts are functions with a set of string keys; the empty dict is *)
(* the function with the empty domain.  Times are epoch seconds.           *)
(***************************************************************************)
EXTENDS Integers, Sequences, FiniteSets, TLC

VARIABLES
    retry_delay,          \* ApolloAPI.retry_delay (seconds)
    cache_enabled,        \* ApolloAPI.cache_enabled
    cache_expiry_hours,   \* ApolloAPI.cache_expiry_hours
    cache_file,           \* content of cache/apollo_leads_cache.json, or NoFile
    cache_metadata_file,  \* content of cache/apollo_cache_metadata.json, or NoFile
    now,                  \* time.time()
    last_req,             \* the last direct _make_request call: what upstream answered, what it returned
    pc,                   \* position of the running fetch_leads call, "idle" between calls
    call,                 \* arguments of the running/last fetch_leads call
    all_leads,            \* fetch_leads local
    page,                 \* fetch_leads local
    contacts,             \* items of the current page not yet processed
    has_more,             \* fetch_leads: pagination.has_more of the current page's response, FALSE if absent
    events,               \* ghost: upstream events and inter-page sleeps of the running fetch_leads call
    ret,                  \* value returned by the last fetch_leads call
    loaded,               \* value returned by the last direct _load_from_cache call
    saved,                \* ghost: argument and time of the last write of the cache slot
    size_in,              \* scoring: company_size argument
    size_out,             \* scoring: (score, reason) returned for size_in
    industry_in,          \* scoring: industry argument
    industry_out,         \* scoring: (score, reason) returned for industry_in
    lead_in,              \* scoring: lead argument of calculate_total_score
    total_out,            \* scoring: (score, reasons) returned for lead_in
    proc_pc,              \* position of the process_leads call: "start", "ranked", "filtered", "done"
    leads_arg,            \* process_leads: the list passed in (rank_leads writes the scores into it)
    min_score,            \* process_leads: threshold argument, in thousandths
    ranked_leads,         \* process_leads local
    filtered_leads,       \* process_leads local, and the value returned
    summary,              \* process_leads local
    location_in,          \* _determine_region: location argument
    region_out,           \* _determine_region: value returned for location_in
    config,               \* Config: the value of each required setting
    entry,                \* the entry point that runs, with its command-line flags
    run_pc,               \* position of the entry point
    network,              \* ghost: the external services contacted so far, in order
    error,                \* the ValueError of validate_required, once raised
    results,              \* run_pipeline's results dict
    last_step,            \* ghost: the step run_pipeline was in when it returned
    status,               \* process exit status (CLI) or statusCode (Lambda handler)
    PREVIEW_ONLY,         \* Config.PREVIEW_ONLY
    table,                \* Airtable: the records of the leads table, in order
    pending_leads,        \* write_leads_to_airtable: the leads still to upsert
    written,              \* ghost: the leads an upsert has written so far
    requests_ok,          \* ghost: every request to the store has succeeded so far
    emails_table,         \* Airtable: the records of the Emails table, in order
    queue_run,            \* the running queue sender and the records it selected
    send_attempts         \* ghost: per Emails record, the sends attempted so far

vars == <<retry_delay, cache_enabled, cache_expiry_hours, cache_file,
          cache_metadata_file, now, last_req, pc, call, all_leads, page,
          contacts, has_more, events, ret, loaded, saved,
          size_in, size_out, industry_in, industry_out, lead_in, total_out,
          proc_pc, leads_arg, min_score, ranked_leads, filtered_leads, summary,
          location_in, region_out,
          config, entry, run_pc, network, error, results, last_step, status,
          PREVIEW_ONLY, table, pending_leads, written, requests_ok,
          emails_table, queue_run, send_attempts>>

client_vars == <<cache_enabled, cache_expiry_hours, cache_file,
                 cache_metadata_file, now, pc, call, all_leads, page,
                 contacts, has_more, events, ret, loaded, saved>>

size_vars == <<size_in, size_out>>

industry_vars == <<industry_in, industry_out>>

total_vars == <<lead_in, total_out>>

proc_vars == <<proc_pc, leads_arg, min_score, ranked_leads, filtered_leads,
               summary>>

region_vars == <<location_in, region_out>>

score_vars == <<size_vars, industry_vars, total_vars, proc_vars>>

\* everything outside the fetch and cache state of the lead-source client
entry_vars == <<config, entry, run_pc, network, error, results, last_step,
                status, PREVIEW_ONLY>>

airtable_vars == <<table, pending_leads, written, requests_ok>>

queue_vars == <<emails_table, queue_run, send_attempts>>

store_vars == <<airtable_vars, queue_vars>>

rest_vars == <<score_vars, region_vars, entry_vars, store_vars>>

-----------------------------------------------------------------------------
(* Python values *)

EmptyDict == <<>>

Get(d, k, dflt) == IF k \in DOMAIN d THEN d[k] ELSE dflt

Truthy(d) == DOMAIN d # {}

Min(a, b) == IF a <= b THEN a ELSE b

\* Python's seq[:n] for n >= 0
Prefix(s, n) == SubSeq(s, 1, Min(n, Len(s)))

-----------------------------------------------------------------------------
(* _make_request: retries with exponential backoff *)

max_retries == 3

initial_retry_delay == 1

\* bound: no call is started that would push retry_delay beyond this
MaxRetryDelay == 4

\* one HTTP attempt's outcome: a RequestException, or a 2xx answer with a JSON body
Fail == [ok |-> FALSE, body |-> EmptyDict]

Ok(p) == [ok |-> TRUE, body |-> p]

RECURSIVE attempt_loop(_, _, _, _)
\* faulty variant: the delay is doubled before the sleep, not after it
attempt_loop_double_first(responses, attempt, delay, sleeps) ==
    IF attempt >= max_retries
    THEN [result |-> EmptyDict, attempts |-> attempt, sleeps |-> sleeps,
          retry_delay |-> delay, raised |-> FALSE]
    ELSE IF responses[attempt + 1].ok
    THEN [result |-> responses[attempt + 1].body, attempts |-> attempt + 1,
          sleeps |-> sleeps, retry_delay |-> delay, raised |-> FALSE]
    ELSE IF attempt = max_retries - 1
    THEN [result |-> EmptyDict, attempts |-> attempt + 1, sleeps |-> sleeps,
          retry_delay |-> delay, raised |-> FALSE]
    ELSE attempt_loop(responses, attempt + 1, delay * 2,
                      Append(sleeps, delay * 2))

attempt_loop(responses, attempt, delay, sleeps) ==
    IF attempt >= max_retries
    THEN [result |-> EmptyDict, attempts |-> attempt, sleeps |-> sleeps,
          retry_delay |-> delay, raised |-> FALSE]
    ELSE IF responses[attempt + 1].ok
    THEN [result |-> responses[attempt + 1].body, attempts |-> attempt + 1,
          sleeps |-> sleeps, retry_delay |-> delay, raised |-> FALSE]
    ELSE IF attempt = max_retries - 1
    THEN [result |-> EmptyDict, attempts |-> attempt + 1, sleeps |-> sleeps,
          retry_delay |-> delay, raised |-> FALSE]
    ELSE attempt_loop(responses, attempt + 1, delay * 2, Append(sleeps, delay))

\* faulty variant: the answer of the last allowed attempt is thrown away
make_request_drop_last(responses, delay) ==
    LET r == attempt_loop(responses, 0, delay, <<>>)
    IN  IF r.attempts = max_retries THEN [r EXCEPT !.result = EmptyDict] ELSE r

\* faulty variant: the last failure is re-raised instead of being swallowed
make_request_reraise(responses, delay) ==
    LET r == attempt_loop(responses, 0, delay, <<>>)
    IN  IF r.attempts = max_retries /\ ~responses[max_retries].ok
        THEN [r EXCEPT !.raised = TRUE] ELSE r

\* faulty variant: every call starts its backoff from the initial delay
make_request_fresh_delay(responses, delay) ==
    attempt_loop(responses, 0, initial_retry_delay, <<>>)

\* responses[i] is what upstream answers to the i-th attempt of this call
make_request(responses, delay) == attempt_loop(responses, 0, delay, <<>>)

NoRequest ==
    [endpoint |-> "none", responses |-> <<>>, result |-> EmptyDict,
     attempts |-> 0, sleeps |-> <<>>, raised |-> FALSE]

Record(endpoint, responses, r) ==
    [endpoint |-> endpoint, responses |-> responses, result |-> r.result,
     attempts |-> r.attempts, sleeps |-> r.sleeps, raised |-> r.raised]

\* bodies used when _make_request is driven directly, as in tests/test_apollo_api.py
TestBodies == {[data |-> "test"], [data |-> "success"], EmptyDict}

Scripts(bodies) == [1..max_retries -> {Fail} \cup {Ok(p) : p \in bodies}]

\* a direct call of _make_request on the client
MakeRequest ==
    /\ pc = "idle"
    /\ \E responses \in Scripts(TestBodies) :
         LET r == make_request(responses, retry_delay)
         IN  /\ r.retry_delay <= MaxRetryDelay
             /\ retry_delay' = r.retry_delay
             /\ last_req' = Record("test", responses, r)
    /\ UNCHANGED <<client_vars, rest_vars>>

-----------------------------------------------------------------------------
(* Leads, as _process_contact_to_lead / _process_person_to_lead build them.  *)
(* Of the fourteen fields the model keeps the identity and the two fields    *)
(* that come from the enrichment call; the others are copied from the item   *)
(* in the same way as apollo_id.                                             *)

process_contact_to_lead(contact, company_info) ==
    IF ~Truthy(contact)
    THEN EmptyDict
    ELSE [apollo_id |-> Get(contact, "id", ""),
          company_revenue |->
              Get(Get(company_info, "organization", EmptyDict),
                  "estimated_annual_revenue", ""),
          company_founded |->
              Get(Get(company_info, "organization", EmptyDict),
                  "founded_year", "")]

process_person_to_lead(person, company_info) ==
    IF ~Truthy(person)
    THEN EmptyDict
    ELSE [apollo_id |-> Get(person, "id", ""),
          company_revenue |->
              Get(Get(company_info, "organization", EmptyDict),
                  "estimated_annual_revenue", ""),
          company_founded |->
              Get(Get(company_info, "organization", EmptyDict),
                  "founded_year", "")]

\* result items upstream may return: an empty record (no organization, no
\* lead) and a contact of an organization
Items == {EmptyDict, [id |-> "c1", organization |-> [id |-> "o1"]]}

\* bodies of a successful enrichment answer
CompanyInfos ==
    {[organization |->
         [estimated_annual_revenue |-> "10M", founded_year |-> "2010"]]}

\* bound: length of the lead lists handed to _save_to_cache directly
MaxSaved == 2

\* lead lists handed to _save_to_cache directly (tests/test_apollo_api.py)
TestLeads ==
    {process_contact_to_lead(c, i) :
        c \in Items \ {EmptyDict}, i \in CompanyInfos \cup {EmptyDict}}

TestLeadLists == UNION {[1..n -> TestLeads] : n \in 0..MaxSaved}

-----------------------------------------------------------------------------
(* The cache: two JSON documents on disk *)

SecondsPerHour == 3600

\* the clock advances in steps of twelve hours
TickSeconds == 12 * SecondsPerHour

\* bound: number of clock steps
MaxTicks == 2

NoFile == [exists |-> FALSE]

File(text) == [exists |-> TRUE, text |-> text]

\* json.dump / json.load of a list of dicts with string values
json_dump_leads(leads) ==
    [array |-> [i \in 1..Len(leads) |->
                   [object |-> [k \in DOMAIN leads[i] |->
                                   [string |-> leads[i][k]]]]]]

json_load_leads(text) ==
    [i \in 1..Len(text.array) |->
        [k \in DOMAIN text.array[i].object |-> text.array[i].object[k].string]]

\* json.dump / json.load of the metadata dict (numbers); created_at, a
\* formatted copy of the timestamp that nothing reads back, is left out
json_dump_numbers(d) == [object |-> [k \in DOMAIN d |-> [number |-> d[k]]]]

json_load_numbers(text) == [k \in DOMAIN text.object |-> text.object[k].number]

\* faulty variant: an entry is valid up to and including the expiry hour
is_cache_valid_inclusive ==
    IF ~cache_metadata_file.exists
    THEN FALSE
    ELSE LET metadata == json_load_numbers(cache_metadata_file.text)
             cache_time == Get(metadata, "timestamp", 0)
             cache_age_hours == (now - cache_time) \div SecondsPerHour
         IN  cache_age_hours <= cache_expiry_hours

is_cache_valid ==
    IF ~cache_metadata_file.exists
    THEN FALSE
    ELSE LET metadata == json_load_numbers(cache_metadata_file.text)
             cache_time == Get(metadata, "timestamp", 0)
             current_time == now
             cache_age_hours == (current_time - cache_time) \div SecondsPerHour
         IN  cache_age_hours < cache_expiry_hours

\* faulty variant: the freshness check is skipped
load_from_cache_no_expiry ==
    IF ~cache_enabled \/ ~cache_file.exists
    THEN <<>>
    ELSE json_load_leads(cache_file.text)

load_from_cache ==
    IF ~cache_enabled \/ ~cache_file.exists
    THEN <<>>
    ELSE IF ~is_cache_valid
    THEN <<>>
    ELSE json_load_leads(cache_file.text)

\* faulty variant: only the metadata file is written
save_to_cache_metadata_only(leads) ==
    IF ~cache_enabled
    THEN UNCHANGED <<cache_file, cache_metadata_file, saved>>
    ELSE /\ cache_metadata_file' =
                File(json_dump_numbers(
                    [timestamp |-> now, leads_count |-> Len(leads),
                     cache_expiry_hours |-> cache_expiry_hours]))
         /\ saved' = [leads |-> leads, at |-> now]
         /\ UNCHANGED cache_file

\* the effect of _save_to_cache(leads) on the two files (and on the ghost)
save_to_cache(leads) ==
    IF ~cache_enabled
    THEN UNCHANGED <<cache_file, cache_metadata_file, saved>>
    ELSE /\ cache_file' = File(json_dump_leads(leads))
         /\ cache_metadata_file' =
                File(json_dump_numbers(
                    [timestamp |-> now, leads_count |-> Len(leads),
                     cache_expiry_hours |-> cache_expiry_hours]))
         /\ saved' = [leads |-> leads, at |-> now]

\* direct calls of the cache operations, between fetches
SaveToCache ==
    /\ pc = "idle"
    /\ \E leads \in TestLeadLists : save_to_cache(leads)
    /\ UNCHANGED <<retry_delay, cache_enabled, cache_expiry_hours, now,
                   last_req, pc, call, all_leads, page, contacts, has_more,
                   events, ret, loaded, rest_vars>>

LoadFromCache ==
    /\ pc = "idle"
    /\ loaded' = load_from_cache
    /\ UNCHANGED <<retry_delay, cache_enabled, cache_expiry_hours, cache_file,
                   cache_metadata_file, now, last_req, pc, call, all_leads,
                   page, contacts, has_more, events, ret, saved,
                   rest_vars>>

ClearCache ==
    /\ pc = "idle"
    /\ cache_file' = NoFile
    /\ cache_metadata_file' = NoFile
    /\ saved' = EmptyDict
    /\ UNCHANGED <<retry_delay, cache_enabled, cache_expiry_hours, now,
                   last_req, pc, call, all_leads, page, contacts, has_more,
                   events, ret, loaded, rest_vars>>

\* expiry settings explored: 0 (tests/test_apollo_api.py) and the default 24
ExpirySettings == {0, 24}

\* set_cache_settings(enabled, expiry_hours); "None" leaves a setting alone
set_cache_settings(enabled, expiry_hours) ==
    /\ cache_enabled' =
           IF enabled = "None" THEN cache_enabled ELSE enabled = "True"
    /\ cache_expiry_hours' =
           IF expiry_hours = "None" THEN cache_expiry_hours
           ELSE CHOOSE h \in ExpirySettings : expiry_hours = ToString(h)

SetCacheSettings ==
    /\ pc = "idle"
    /\ \E enabled \in {"None", "True", "False"},
          expiry_hours \in {"None"} \cup {ToString(h) : h \in ExpirySettings} :
         set_cache_settings(enabled, expiry_hours)
    /\ UNCHANGED <<retry_delay, cache_file, cache_metadata_file, now,
                   last_req, pc, call, all_leads, page, contacts, has_more,
                   events, ret, loaded, saved, rest_vars>>

\* set_cache_settings(enabled=...)
SetCacheEnabled ==
    /\ pc = "idle"
    /\ \E enabled \in {"True", "False"} : set_cache_settings(enabled, "None")
    /\ UNCHANGED <<retry_delay, cache_file, cache_metadata_file, now,
                   last_req, pc, call, all_leads, page, contacts, has_more,
                   events, ret, loaded, saved, rest_vars>>

\* time passes.  The clock is read by the cache operations only: at the
\* start of fetch_leads and when it saves its result.  Every call that waits
\* for upstream is about to request page 1 between these two reads, so time
\* passing anywhere inside a call is time passing there.
Tick ==
    /\ pc = "idle" \/ (pc = "page" /\ page = 1)
    /\ now < MaxTicks * TickSeconds
    /\ now' = now + TickSeconds
    /\ UNCHANGED <<retry_delay, cache_enabled, cache_expiry_hours, cache_file,
                   cache_metadata_file, last_req, pc, call, all_leads, page,
                   contacts, has_more, events, ret, loaded, saved, rest_vars>>

-----------------------------------------------------------------------------
(* fetch_leads: cache check, then live pagination *)

\* bound: largest max_leads argument
MaxLeads == 2

\* bound: most items upstream puts on one page
MaxPageItems == 2

\* bound: upstream has no more than this many pages
MaxPages == 2

page_size_cap == 25

\* use_contact_list keeps its default: no caller in the repository passes it
\* (main.py:80, lambda_functions/fetch_leads.py:23)
UseContactList == {TRUE}

ItemLists == UNION {[1..n -> Items] : n \in 0..MaxPageItems}

\* JSON bodies a search may answer with on page pg: the envelope with or
\* without a pagination record, or an empty object
SearchBodies(key, pg) ==
    {EmptyDict}
    \cup {(key :> items) : items \in ItemLists}
    \cup {(key :> items) @@ [pagination |-> [has_more |-> more]] :
             items \in ItemLists, more \in {b \in BOOLEAN : b => pg < MaxPages}}

\* what upstream answers to the attempts of one request: k failures, then
\* the same body on every further attempt
FetchScripts(bodies) ==
    {[i \in 1..max_retries |-> IF i <= k THEN Fail ELSE Ok(b)] :
        k \in 0..(max_retries - 1), b \in bodies}
    \cup {[i \in 1..max_retries |-> Fail]}

\* faulty variant: force_refresh is ignored
uses_cache_always(force_refresh) == TRUE

\* line 260
uses_cache(force_refresh) == ~force_refresh

\* faulty variant: the whole cached list is returned
cache_hit_all(cached_leads, max_leads) == cached_leads

\* line 264
cache_hit(cached_leads, max_leads) == Prefix(cached_leads, max_leads)

\* faulty variant: the item loop never stops early
enough_never(leads, max_leads) == FALSE

\* lines 289 and 320
enough(leads, max_leads) == Len(leads) >= max_leads

\* faulty variant: an empty result is cached too
should_cache_always(leads) == TRUE

\* line 346
should_cache(leads) == leads # <<>>

\* faulty variant: an item whose enrichment came back empty is dropped
to_lead_strict(use_contact_list, item, company_info) ==
    IF Truthy(Get(item, "organization", EmptyDict)) /\ ~Truthy(company_info)
    THEN EmptyDict
    ELSE process_contact_to_lead(item, company_info)

\* lines 299 and 330
to_lead(use_contact_list, item, company_info) ==
    IF use_contact_list
    THEN process_contact_to_lead(item, company_info)
    ELSE process_person_to_lead(item, company_info)

\* lines 343-349: cache a non-empty result, return it
Finish(leads, ev, pg) ==
    /\ IF should_cache(leads)
       THEN save_to_cache(leads)
       ELSE UNCHANGED <<cache_file, cache_metadata_file, saved>>
    /\ ret' = leads
    /\ all_leads' = leads
    /\ events' = ev
    /\ page' = pg
    /\ contacts' = <<>>
    /\ pc' = "done"

\* lines 334-341 and the loop test of line 276
EndOfPage(leads, ev) ==
    IF ~has_more
        THEN Finish(leads, ev, page)
        ELSE IF Len(leads) < call.max_leads
        THEN /\ page' = page + 1
             /\ events' = Append(ev, [op |-> "sleep"])
             /\ all_leads' = leads
             /\ contacts' = <<>>
             /\ pc' = "page"
             /\ UNCHANGED <<cache_file, cache_metadata_file, saved,
                            ret>>
        ELSE Finish(leads, Append(ev, [op |-> "sleep"]), page + 1)

\* lines 254-276: the call, its cache check and the first loop test
FetchLeads ==
    /\ pc = "idle"
    /\ \E max_leads \in 0..MaxLeads, force_refresh \in BOOLEAN,
          use_contact_list \in UseContactList :
         LET cached_leads ==
                 IF uses_cache(force_refresh) THEN load_from_cache ELSE <<>>
         IN  /\ call' = [max_leads |-> max_leads,
                         force_refresh |-> force_refresh,
                         use_contact_list |-> use_contact_list,
                         cache_read |-> uses_cache(force_refresh)]
             /\ IF cached_leads # <<>>
                THEN /\ ret' = cache_hit(cached_leads, max_leads)
                     /\ pc' = "done"
                     /\ events' = <<>>
                     /\ UNCHANGED <<cache_file, cache_metadata_file, saved, all_leads, page, contacts>>
                ELSE IF 0 < max_leads
                THEN /\ all_leads' = <<>>
                     /\ page' = 1
                     /\ events' = <<>>
                     /\ pc' = "page"
                     /\ UNCHANGED <<cache_file, cache_metadata_file, saved, ret, contacts>>
                ELSE Finish(<<>>, <<>>, 1)
    /\ UNCHANGED <<retry_delay, cache_enabled, cache_expiry_hours, now,
                   last_req, has_more, loaded, rest_vars>>

\* lines 277-286 / 303-317: request one page
FetchPage ==
    /\ pc = "page"
    /\ LET key == IF call.use_contact_list THEN "contacts" ELSE "people"
           per_page == Min(page_size_cap, call.max_leads)
       IN  \E responses \in FetchScripts(SearchBodies(key, page)) :
             LET r == make_request(responses, retry_delay)
                 items == Get(r.result, key, <<>>)
                 ev == Append(events,
                              [op |-> "search", endpoint |-> key,
                               page |-> page, per_page |-> per_page,
                               failed |-> \A i \in 1..max_retries :
                                             ~responses[i].ok])
             IN  /\ r.retry_delay <= MaxRetryDelay
                 /\ retry_delay' = r.retry_delay
                 /\ has_more' = Get(Get(r.result, "pagination", EmptyDict),
                                     "has_more", FALSE)
                 /\ IF items = <<>>
                    THEN Finish(all_leads, ev, page)
                    ELSE /\ contacts' = items
                         /\ events' = ev
                         /\ pc' = "items"
                         /\ UNCHANGED <<cache_file, cache_metadata_file, saved, ret, all_leads, page>>
    /\ UNCHANGED <<cache_enabled, cache_expiry_hours, now, last_req, call,
                   loaded, rest_vars>>

\* the rest of the page once the current item is dealt with
AfterItem(leads, ev) ==
    IF Tail(contacts) = <<>>
    THEN EndOfPage(leads, ev)
    ELSE /\ contacts' = Tail(contacts)
         /\ all_leads' = leads
         /\ events' = ev
         /\ UNCHANGED <<cache_file, cache_metadata_file, saved,
                        ret, page, pc>>

\* lines 288-301 / 319-332: one iteration of the item loop
ProcessItem ==
    /\ pc = "items"
    /\ LET item == Head(contacts)
           org_id == Get(Get(item, "organization", EmptyDict), "id", "")
       IN  IF enough(all_leads, call.max_leads)
           THEN /\ EndOfPage(all_leads, events)
                /\ UNCHANGED retry_delay
           ELSE IF org_id # ""
           THEN \E responses \in FetchScripts(CompanyInfos) :
                  LET r == make_request(responses, retry_delay)
                      lead == to_lead(call.use_contact_list, item, r.result)
                  IN  /\ r.retry_delay <= MaxRetryDelay
                      /\ retry_delay' = r.retry_delay
                      /\ AfterItem(
                            IF Truthy(lead) THEN Append(all_leads, lead)
                            ELSE all_leads,
                            Append(events,
                                   [op |-> "enrich", id |-> org_id,
                                    failed |-> \A i \in 1..max_retries :
                                                  ~responses[i].ok]))
           ELSE LET lead == to_lead(call.use_contact_list, item, EmptyDict)
                IN  /\ AfterItem(
                          IF Truthy(lead) THEN Append(all_leads, lead)
                          ELSE all_leads,
                          events)
                    /\ UNCHANGED retry_delay
    /\ UNCHANGED <<cache_enabled, cache_expiry_hours, now, last_req, call,
                   has_more, loaded, rest_vars>>

\* the caller takes the returned list; the call's locals go away
Return ==
    /\ pc = "done"
    /\ pc' = "idle"
    /\ call' = EmptyDict
    /\ all_leads' = <<>>
    /\ page' = 1
    /\ contacts' = <<>>
    /\ has_more' = FALSE
    /\ events' = <<>>
    /\ ret' = <<>>
    /\ UNCHANGED <<retry_delay, cache_enabled, cache_expiry_hours, cache_file,
                   cache_metadata_file, now, last_req, loaded, saved,
                   rest_vars>>

-----------------------------------------------------------------------------
(* LeadProcessor: scores are kept in hundredths (0.8 is 80) *)

\* bound: largest employee count scored
MaxCompanySize == 502

\* LeadProcessor.size_ranges, in the dict's insertion order
size_ranges ==
    << [name |-> "50-100", min_size |-> 50, max_size |-> 100, weight |-> 80],
       [name |-> "100-300", min_size |-> 100, max_size |-> 300, weight |-> 100],
       [name |-> "300-500", min_size |-> 300, max_size |-> 500, weight |-> 70] >>

\* the first range of size_ranges that holds company_size, 0 if none does
first_range(company_size) ==
    LET hits == {i \in 1..Len(size_ranges) :
                    /\ size_ranges[i].min_size <= company_size
                    /\ company_size <= size_ranges[i].max_size}
    IN  IF hits = {} THEN 0 ELSE CHOOSE i \in hits : \A j \in hits : i <= j

calculate_company_size_score(company_size) ==
    IF company_size = 0
    THEN <<50, "size:unknown">>
    ELSE IF first_range(company_size) # 0
    THEN <<size_ranges[first_range(company_size)].weight,
           "size:" \o size_ranges[first_range(company_size)].name>>
    ELSE IF company_size < 50
    THEN <<30, "size:too-small">>
    ELSE <<30, "size:too-large">>

\* calculate_company_size_score(company_size) is called
ScoreSize ==
    /\ \E company_size \in 0..MaxCompanySize :
         /\ size_in' = company_size
         /\ size_out' = calculate_company_size_score(company_size)
    /\ UNCHANGED <<retry_delay, last_req, client_vars, industry_vars,
                   total_vars, proc_vars, region_vars,
                   entry_vars, store_vars>>

-----------------------------------------------------------------------------
(* Python str values are sequences of one-character strings; None is a     *)
(* value of its own.                                                       *)

None == [none |-> TRUE]

Str(chars) == [str |-> chars]

upper_letters ==
    <<"A", "B", "C", "D", "E", "F", "G", "H", "I", "J", "K", "L", "M",
      "N", "O", "P", "Q", "R", "S", "T", "U", "V", "W", "X", "Y", "Z">>

lower_letters ==
    <<"a", "b", "c", "d", "e", "f", "g", "h", "i", "j", "k", "l", "m",
      "n", "o", "p", "q", "r", "s", "t", "u", "v", "w", "x", "y", "z">>

lower_char(c) ==
    IF \E i \in DOMAIN upper_letters : upper_letters[i] = c
    THEN lower_letters[CHOOSE i \in DOMAIN upper_letters : upper_letters[i] = c]
    ELSE c

\* faulty variant: the case is kept
lower_unchanged(chars) == chars

\* str.lower()
lower(chars) == [i \in 1..Len(chars) |-> lower_char(chars[i])]

\* Python's `sub in text` on str
contains(text, sub) ==
    \E i \in 0..(Len(text) - Len(sub)) :
        SubSeq(text, i + 1, i + Len(sub)) = sub

whitespace == {" "}

RECURSIVE split_from(_, _, _)
\* str.split(): the maximal runs of non-whitespace characters
split_from(chars, word, words) ==
    IF chars = <<>>
    THEN IF word = <<>> THEN words ELSE Append(words, word)
    ELSE IF Head(chars) \in whitespace
    THEN split_from(Tail(chars), <<>>,
                    IF word = <<>> THEN words ELSE Append(words, word))
    ELSE split_from(Tail(chars), Append(word, Head(chars)), words)

split(chars) == split_from(chars, <<>>, <<>>)

RECURSIVE Text(_)
\* the characters as one string, for the reason tags
Text(chars) ==
    IF chars = <<>> THEN "" ELSE Head(chars) \o Text(Tail(chars))

RECURSIVE concat(_)
\* "".join(parts)
concat(parts) ==
    IF parts = <<>> THEN <<>> ELSE Head(parts) \o concat(Tail(parts))

-----------------------------------------------------------------------------
(* calculate_industry_score *)

\* LeadProcessor.industry_weights, in the dict's insertion order
industry_weights ==
    << [weight |-> 100, key |-> <<"t","e","c","h","n","o","l","o","g","y">>],
       [weight |-> 100, key |-> <<"s","o","f","t","w","a","r","e">>],
       [weight |-> 100, key |-> <<"s","a","a","s">>],
       [weight |-> 90, key |-> <<"c","y","b","e","r","s","e","c","u","r","i","t","y">>],
       [weight |-> 80, key |-> <<"f","i","n","t","e","c","h">>],
       [weight |-> 70, key |-> <<"h","e","a","l","t","h","c","a","r","e">>],
       [weight |-> 70, key |-> <<"e","c","o","m","m","e","r","c","e">>],
       [weight |-> 60, key |-> <<"m","a","n","u","f","a","c","t","u","r","i","n","g">>],
       [weight |-> 50, key |-> <<"c","o","n","s","u","l","t","i","n","g">>],
       [weight |-> 40, key |-> <<"r","e","t","a","i","l">>],
       [weight |-> 40, key |-> <<"e","d","u","c","a","t","i","o","n">>],
       [weight |-> 30, key |-> <<"n","o","n","-","p","r","o","f","i","t">>] >>

\* faulty variant: the last matching key of the table wins
last_key(hits) ==
    IF hits = {} THEN 0 ELSE CHOOSE i \in hits : \A j \in hits : j <= i

\* the first index of industry_weights among hits, 0 if there is none
first_key(hits) ==
    IF hits = {} THEN 0 ELSE CHOOSE i \in hits : \A j \in hits : i <= j

\* line 46
exact_hit(industry_lower, i) == contains(industry_lower, industry_weights[i].key)

\* faulty variant: the words of a key are also cut at its hyphens
key_words_hyphen(key) ==
    split([i \in 1..Len(key) |-> IF key[i] = "-" THEN " " ELSE key[i]])

\* line 51: key.split()
key_words(key) == split(key)

\* line 51
partial_hit(industry_lower, i) ==
    LET words == key_words(industry_weights[i].key)
    IN  \E w \in DOMAIN words : contains(industry_lower, words[w])

calculate_industry_score(industry) ==
    IF industry = None \/ industry = Str(<<>>)
    THEN <<50, "industry:unknown">>
    ELSE LET industry_lower == lower(industry.str)
             e == first_key({i \in DOMAIN industry_weights :
                                exact_hit(industry_lower, i)})
             p == first_key({i \in DOMAIN industry_weights :
                                partial_hit(industry_lower, i)})
         IN  IF e # 0
             THEN <<industry_weights[e].weight,
                    "industry:" \o Text(industry_weights[e].key)>>
             ELSE IF p # 0
             THEN <<(industry_weights[p].weight * 8) \div 10,
                    "industry:" \o Text(industry_weights[p].key)
                        \o "(partial)">>
             ELSE <<30, "industry:unknown">>

\* bound: an industry text is made of at most this many fragments
MaxFragments == 3

\* pieces of the industry texts tried
Fragments ==
    { <<"S","o","f","t","w","a","r","e">>, <<"t","e","c","h">>,
      <<"n","o","l","o","g","y">>, <<"R","e","t","a","i","l">>,
      <<"S","a","a","S">>, <<"n","o","n">>, <<"-">>,
      <<"p","r","o","f","i","t">>, <<" ">>, <<"F","i","n">>,
      <<"&">>, <<"B","a","n","k","i","n","g">> }

IndustryTexts ==
    {concat(parts) : parts \in UNION {[1..n -> Fragments] : n \in 0..MaxFragments}}

Industries == {None} \cup {Str(t) : t \in IndustryTexts}

\* the value of a result variable before the call has returned
NotCalled == <<>>

\* calculate_industry_score(industry_in) is called and returns
ScoreIndustry ==
    /\ industry_out = NotCalled
    /\ industry_out' = calculate_industry_score(industry_in)
    /\ UNCHANGED <<retry_delay, last_req, client_vars, size_vars, industry_in,
                   total_vars, proc_vars, region_vars,
                   entry_vars, store_vars>>

-----------------------------------------------------------------------------
(* calculate_region_score and calculate_total_score.  Weights are in       *)
(* hundredths, the weighted sum in ten-thousandths, the rounded total in   *)
(* thousandths.                                                            *)

\* LeadProcessor.region_weights
region_weights ==
    << [key |-> <<"N","o","r","t","h"," ","A","m","e","r","i","c","a">>,
        weight |-> 100],
       [key |-> <<"E","u","r","o","p","e">>, weight |-> 90],
       [key |-> <<"O","t","h","e","r">>, weight |-> 50] >>

\* region_weights.get(region, 0.5), then the tag with region.lower()
calculate_region_score(region) ==
    LET hits == {i \in DOMAIN region_weights : region_weights[i].key = region.str}
    IN  << IF hits = {} THEN 50 ELSE region_weights[CHOOSE i \in hits : TRUE].weight,
           "region:" \o Text(lower(region.str)) >>

INDUSTRY_WEIGHT == 40
COMPANY_SIZE_WEIGHT == 30
REGION_WEIGHT == 30

\* faulty variant: industry and company size weights are exchanged
weighted_sum_swapped(industry_score, company_size_score, region_score) ==
    industry_score * COMPANY_SIZE_WEIGHT
        + company_size_score * INDUSTRY_WEIGHT
        + region_score * REGION_WEIGHT

\* lines 89-93
weighted_sum(industry_score, company_size_score, region_score) ==
    industry_score * INDUSTRY_WEIGHT
        + company_size_score * COMPANY_SIZE_WEIGHT
        + region_score * REGION_WEIGHT

\* round(x, 3) of a value given in ten-thousandths: the nearest thousandth,
\* a tie going to the even one
round_3(x) ==
    LET q == x \div 10
        r == x % 10
    IN  IF r > 5 \/ (r = 5 /\ q % 2 = 1) THEN q + 1 ELSE q

\* faulty variant: a sub-score of exactly 0.7 counts as a strength
is_strength_inclusive(score) == score >= 70

\* lines 97, 99, 101
is_strength(score) == score > 70

calculate_total_score(lead) ==
    LET industry == calculate_industry_score(Get(lead, "company_industry", Str(<<>>)))
        size == calculate_company_size_score(Get(lead, "company_size", 0))
        region == calculate_region_score(Get(lead, "region", Str(<<>>)))
        r1 == IF is_strength(industry[1]) THEN <<"+" \o industry[2]>> ELSE <<>>
        r2 == IF is_strength(size[1]) THEN Append(r1, "+" \o size[2]) ELSE r1
        r3 == IF is_strength(region[1]) THEN Append(r2, "+" \o region[2]) ELSE r2
    IN  <<round_3(weighted_sum(industry[1], size[1], region[1])), r3>>

\* industries, company sizes and regions of the leads scored
SampleIndustries ==
    {None, Str(<<>>), Str(<<"S","o","f","t","w","a","r","e">>),
     Str(<<"R","e","t","a","i","l">>), Str(<<"B","a","n","k","i","n","g">>)}
    \cup {Str(industry_weights[i].key) : i \in DOMAIN industry_weights}

SampleSizes == {0, 10, 50, 75, 100, 150, 300, 400, 500, 700}

SampleRegions ==
    {Str(region_weights[i].key) : i \in DOMAIN region_weights}
    \cup {Str(<<"U","n","k","n","o","w","n">>), Str(<<>>),
          Str(<<"e","u","r","o","p","e">>)}

SampleLeads ==
    [company_industry : SampleIndustries, company_size : SampleSizes,
     region : SampleRegions]

\* calculate_total_score(lead_in) is called and returns
ScoreLead ==
    /\ total_out = NotCalled
    /\ total_out' = calculate_total_score(lead_in)
    /\ UNCHANGED <<retry_delay, last_req, client_vars, size_vars,
                   industry_vars, lead_in, proc_vars, region_vars,
                   entry_vars, store_vars>>

-----------------------------------------------------------------------------
(* process_leads: rank_leads, filter_high_quality_leads, get_lead_summary  *)

\* lines 113-118: the fields rank_leads writes into a lead
score_lead(lead) ==
    LET total == calculate_total_score(lead)
    IN
    [score |-> total[1],
     score_reasons |-> total[2],
     industry_score |->
         calculate_industry_score(Get(lead, "company_industry", Str(<<>>)))[1],
     company_size_score |->
         calculate_company_size_score(Get(lead, "company_size", 0))[1],
     region_score |->
         calculate_region_score(Get(lead, "region", Str(<<>>)))[1]]
    @@ lead

insert_at(seq, k, x) ==
    SubSeq(seq, 1, k) \o <<x>> \o SubSeq(seq, k + 1, Len(seq))

\* faulty variant: a lead goes in front of the leads of equal score
insert_by_score_before_ties(ranked, lead) ==
    insert_at(ranked,
              Cardinality({i \in DOMAIN ranked : ranked[i].score > lead.score}),
              lead)

\* one step of sorted(..., reverse=True): the lead goes behind every lead
\* already placed whose score is at least its own
insert_by_score(ranked, lead) ==
    insert_at(ranked,
              Cardinality({i \in DOMAIN ranked : ranked[i].score >= lead.score}),
              lead)

RECURSIVE sorted_from(_, _)
sorted_from(rest, ranked) ==
    IF rest = <<>> THEN ranked
    ELSE sorted_from(Tail(rest), insert_by_score(ranked, Head(rest)))

\* line 121: sorted(leads, key=lambda x: x['score'], reverse=True)
sorted_by_score(scored) == sorted_from(scored, <<>>)

\* faulty variant: the threshold is exclusive
meets_strict(score, threshold) == score > threshold

\* line 136
meets(score, threshold) == score >= threshold

filter_high_quality_leads(scored, threshold) ==
    SelectSeq(scored, LAMBDA lead : meets(lead.score, threshold))

RECURSIVE sum(_)
sum(numbers) ==
    IF numbers = <<>> THEN 0 ELSE Head(numbers) + sum(Tail(numbers))

\* round(total / n, 3) for a total in thousandths: the nearest thousandth;
\* when the quotient lies exactly between two, the binary value of the
\* float quotient decides, so either may come out
mean_3(total, n) ==
    LET q == total \div n
        r == total % n
    IN  IF 2 * r < n THEN {q}
        ELSE IF 2 * r > n THEN {q + 1}
        ELSE {q, q + 1}

max_of(numbers) ==
    CHOOSE x \in {numbers[i] : i \in DOMAIN numbers} :
        \A i \in DOMAIN numbers : numbers[i] <= x

min_of(numbers) ==
    CHOOSE x \in {numbers[i] : i \in DOMAIN numbers} :
        \A i \in DOMAIN numbers : x <= numbers[i]

\* faulty variant: the upper end of a range is left out
count_sizes_half_open(company_sizes, low, high) ==
    Cardinality({i \in DOMAIN company_sizes :
                    low <= company_sizes[i] /\ company_sizes[i] < high})

\* lines 167-169
count_sizes(company_sizes, low, high) ==
    Cardinality({i \in DOMAIN company_sizes :
                    low <= company_sizes[i] /\ company_sizes[i] <= high})

\* get_lead_summary without its region and industry counts; average is
\* the rounded mean
get_lead_summary(scored, average) ==
    IF scored = <<>>
    THEN EmptyDict
    ELSE LET scores == [i \in DOMAIN scored |-> Get(scored[i], "score", 0)]
             company_sizes ==
                 [i \in DOMAIN scored |-> Get(scored[i], "company_size", 0)]
         IN  [total_leads |-> Len(scored),
              average_score |-> average,
              top_score |-> max_of(scores),
              bottom_score |-> min_of(scores),
              company_sizes |->
                  [r \in {size_ranges[i].name : i \in DOMAIN size_ranges} |->
                      LET i == CHOOSE i \in DOMAIN size_ranges :
                                   size_ranges[i].name = r
                      IN  count_sizes(company_sizes, size_ranges[i].min_size,
                                      size_ranges[i].max_size)]]

\* the leads handed to process_leads
ProcLeads ==
    { [apollo_id |-> "a1", company_size |-> 150,
       company_industry |-> Str(<<"S","o","f","t","w","a","r","e">>),
       region |-> Str(<<"N","o","r","t","h"," ","A","m","e","r","i","c","a">>)],
      [apollo_id |-> "a2", company_size |-> 700,
       company_industry |-> Str(<<"R","e","t","a","i","l">>),
       region |-> Str(<<"O","t","h","e","r">>)],
      [apollo_id |-> "a3", company_size |-> 200,
       company_industry |-> Str(<<"S","a","a","S">>),
       region |-> Str(<<"N","o","r","t","h"," ","A","m","e","r","i","c","a">>)],
      [apollo_id |-> "a4", company_size |-> 400,
       company_industry |-> Str(<<"M","a","n","u","f","a","c","t","u","r","i","n","g">>),
       region |-> Str(<<"O","t","h","e","r">>)],
      [apollo_id |-> "a5", company_size |-> 75,
       company_industry |-> Str(<<"C","y","b","e","r","s","e","c","u","r","i","t","y">>),
       region |-> Str(<<"E","u","r","o","p","e">>)] }

\* bound: most leads in one process_leads call
MaxBatch == 3

Batches == UNION {[1..n -> ProcLeads] : n \in 0..MaxBatch}

\* thresholds tried, in thousandths: none, the default 0.6, one above
\* every score
MinScores == {0, 600, 1001}

\* lines 106-129
RankLeads ==
    /\ proc_pc = "start"
    /\ LET scored == [i \in DOMAIN leads_arg |-> score_lead(leads_arg[i])]
       IN  /\ leads_arg' = scored
           /\ ranked_leads' = sorted_by_score(scored)
    /\ proc_pc' = "ranked"
    /\ UNCHANGED <<retry_delay, last_req, client_vars, size_vars,
                   industry_vars, total_vars, min_score, filtered_leads,
                   summary, region_vars,
                   entry_vars, store_vars>>

\* lines 131-138
FilterLeads ==
    /\ proc_pc = "ranked"
    /\ filtered_leads' = filter_high_quality_leads(ranked_leads, min_score)
    /\ proc_pc' = "filtered"
    /\ UNCHANGED <<retry_delay, last_req, client_vars, size_vars,
                   industry_vars, total_vars, leads_arg, min_score, ranked_leads,
                   summary, region_vars,
                   entry_vars, store_vars>>

\* lines 140-185 and 201-206
Summarise ==
    /\ proc_pc = "filtered"
    /\ \E average \in
            IF filtered_leads = <<>> THEN {0}
            ELSE mean_3(sum([i \in DOMAIN filtered_leads |->
                                Get(filtered_leads[i], "score", 0)]),
                        Len(filtered_leads)) :
          summary' = get_lead_summary(filtered_leads, average)
    /\ proc_pc' = "done"
    /\ UNCHANGED <<retry_delay, last_req, client_vars, size_vars,
                   industry_vars, total_vars, leads_arg, min_score, ranked_leads,
                   filtered_leads, region_vars,
                   entry_vars, store_vars>>

\* bound: most leads of one direct get_lead_summary call
MaxSummaryLeads == 2

\* company sizes at and around the ends of the three ranges
SummarySizes == {0, 49, 50, 99, 100, 101, 299, 300, 301, 500, 501}

\* scored leads handed to get_lead_summary directly
SummaryBatches ==
    UNION {[1..n -> {[apollo_id |-> "s1", company_size |-> size,
                      score |-> 600] : size \in SummarySizes}] :
              n \in 0..MaxSummaryLeads}

\* lines 140-185: get_lead_summary(leads_arg) is called on its own
GetLeadSummary ==
    /\ proc_pc = "summary"
    /\ \E average \in
            IF leads_arg = <<>> THEN {0}
            ELSE mean_3(sum([i \in DOMAIN leads_arg |->
                                Get(leads_arg[i], "score", 0)]),
                        Len(leads_arg)) :
          summary' = get_lead_summary(leads_arg, average)
    /\ proc_pc' = "done"
    /\ UNCHANGED <<retry_delay, last_req, client_vars, size_vars,
                   industry_vars, total_vars, leads_arg, min_score, ranked_leads,
                   filtered_leads, region_vars,
                   entry_vars, store_vars>>

-----------------------------------------------------------------------------
(* ApolloAPI._determine_region *)

na_countries ==
    << <<"u","n","i","t","e","d"," ","s","t","a","t","e","s">>,
       <<"u","s","a">>, <<"c","a","n","a","d","a">>,
       <<"m","e","x","i","c","o">> >>

eu_countries ==
    << <<"u","n","i","t","e","d"," ","k","i","n","g","d","o","m">>,
       <<"u","k">>, <<"g","e","r","m","a","n","y">>,
       <<"f","r","a","n","c","e">>, <<"s","p","a","i","n">>,
       <<"i","t","a","l","y">>,
       <<"n","e","t","h","e","r","l","a","n","d","s">>,
       <<"s","w","e","d","e","n">>, <<"n","o","r","w","a","y">>,
       <<"d","e","n","m","a","r","k">>, <<"f","i","n","l","a","n","d">>,
       <<"s","w","i","t","z","e","r","l","a","n","d">>,
       <<"a","u","s","t","r","i","a">>, <<"b","e","l","g","i","u","m">>,
       <<"i","r","e","l","a","n","d">> >>

\* any(country in location_lower for country in countries)
any_in(location_lower, countries) ==
    \E i \in DOMAIN countries : contains(location_lower, countries[i])

\* faulty variant: Europe is looked for first
region_of_europe_first(in_na, in_eu) ==
    IF in_eu THEN Str(<<"E","u","r","o","p","e">>)
    ELSE IF in_na THEN Str(<<"N","o","r","t","h"," ","A","m","e","r","i","c","a">>)
    ELSE Str(<<"O","t","h","e","r">>)

\* lines 414-424
region_of(in_na, in_eu) ==
    IF in_na THEN Str(<<"N","o","r","t","h"," ","A","m","e","r","i","c","a">>)
    ELSE IF in_eu THEN Str(<<"E","u","r","o","p","e">>)
    ELSE Str(<<"O","t","h","e","r">>)

determine_region(location) ==
    IF location = None \/ location = Str(<<>>)
    THEN Str(<<"U","n","k","n","o","w","n">>)
    ELSE LET location_lower == lower(location.str)
         IN  region_of(any_in(location_lower, na_countries),
                       any_in(location_lower, eu_countries))

\* bound: a location is made of at most this many parts
MaxLocationParts == 3

\* pieces of the locations tried
LocationParts ==
    { <<"S","a","n"," ","F","r","a","n","c","i","s","c","o">>, <<","," ">>,
      <<"U","S","A">>, <<"L","o","n","d","o","n">>, <<"U","K">>,
      <<"C","a","n","a","d","a">>, <<"B","e","r","l","i","n">>,
      <<"G","e","r","m","a","n","y">>, <<"T","o","k","y","o">>,
      <<"J","a","p","a","n">>, <<"U">>, <<"k">>, <<"r","a","i","n","e">>,
      <<"F","R","A","N","C","E">>, <<"M","e","x","i">>, <<"C","O">> }

Locations ==
    {None} \cup
    {Str(concat(parts)) :
        parts \in UNION {[1..n -> LocationParts] : n \in 0..MaxLocationParts}}

\* _determine_region(location_in) is called and returns
DetermineRegion ==
    /\ region_out = NotCalled
    /\ region_out' = determine_region(location_in)
    /\ UNCHANGED <<retry_delay, last_req, client_vars, score_vars, location_in,
                   entry_vars, store_vars>>

-----------------------------------------------------------------------------
(* Config.validate_required and the entry points: the command-line        *)
(* pipeline of main.py and the Lambda handlers                            *)

required_vars ==
    <<"APOLLO_API_KEY", "OPENAI_API_KEY", "AIRTABLE_API_KEY",
      "AIRTABLE_BASE_ID", "SENDER_EMAIL">>

RequiredNames == {required_vars[i] : i \in DOMAIN required_vars}

\* a setting is unset, set to the empty string, or set
SettingValues == {None, Str(<<>>), Str(<<"k">>)}

Configs == [RequiredNames -> SettingValues]

\* line 57: not getattr(cls, var)
falsy(value) == value = None \/ value = Str(<<>>)

RECURSIVE join(_, _)
\* sep.join(names)
join(names, sep) ==
    IF names = <<>> THEN ""
    ELSE IF Len(names) = 1 THEN Head(names)
    ELSE Head(names) \o sep \o join(Tail(names), sep)

NoError == [raised |-> FALSE, missing_vars |-> <<>>, message |-> ""]

validate_required(cfg) ==
    LET missing_vars == SelectSeq(required_vars, LAMBDA var : falsy(cfg[var]))
    IN  IF missing_vars # <<>>
        THEN [raised |-> TRUE, missing_vars |-> missing_vars,
              message |-> "Missing required environment variables: "
                              \o join(missing_vars, ", ")]
        ELSE NoError

\* bound: most leads one pipeline run fetches
MaxPipelineLeads == 2

EntryPoints ==
    [name : {"cli"}, preview_only : BOOLEAN, no_email : BOOLEAN]
    \cup [name : {"lambda_fetch_leads", "lambda_store_leads",
                  "lambda_generate_emails", "lambda_send_emails"},
          preview_only : {FALSE}, no_email : {FALSE}]

NoResults ==
    [leads_fetched |-> 0, leads_processed |-> 0, emails_generated |-> 0,
     emails_sent |-> 0, success |-> FALSE, errors |-> <<>>]

\* lambda_functions/fetch_leads.py: ApolloAPI() and fetch_leads, nothing
\* before them
LambdaFetchLeads ==
    /\ entry.name = "lambda_fetch_leads"
    /\ run_pc = "start"
    /\ network' = Append(network, "apollo")
    /\ \E code \in {200, 500} : status' = code
    /\ run_pc' = "exit"
    /\ UNCHANGED <<retry_delay, last_req, client_vars, score_vars, region_vars,
                   store_vars,
                   config, entry, error, results, last_step, PREVIEW_ONLY>>

\* the handlers that validate first: store_leads.py, generate_emails.py,
\* send_emails.py; config_status is the statusCode of a configuration error
ValidatedLambda(name, service, config_status) ==
    /\ entry.name = name
    /\ run_pc = "start"
    /\ LET v == validate_required(config)
       IN  IF v.raised
           THEN /\ error' = v
                /\ status' = config_status
                /\ UNCHANGED network
           ELSE /\ UNCHANGED error
                /\ \E has_input \in BOOLEAN :
                     IF ~has_input
                     THEN status' = 400 /\ UNCHANGED network
                     ELSE /\ network' = Append(network, service)
                          /\ \E code \in {200, 500} : status' = code
    /\ run_pc' = "exit"
    /\ UNCHANGED <<retry_delay, last_req, client_vars, score_vars, region_vars,
                   store_vars,
                   config, entry, results, last_step, PREVIEW_ONLY>>

LambdaStoreLeads == ValidatedLambda("lambda_store_leads", "airtable", 500)

LambdaGenerateEmails == ValidatedLambda("lambda_generate_emails", "openai", 500)

\* send_emails.py 117-125: a ValueError is answered with 400
LambdaSendEmails == ValidatedLambda("lambda_send_emails", "gmail", 400)

\* what every step of the command-line run leaves alone
cli_frame ==
    <<retry_delay, last_req, client_vars, score_vars, region_vars, store_vars,
      config, entry, PREVIEW_ONLY>>

\* main.py 276 and 30-38: the pipeline object is built outside main's try,
\* so an exception here ends the process with a traceback and status 1
Construct ==
    /\ entry.name = "cli"
    /\ run_pc = "start"
    /\ LET v == validate_required(config)
       IN  IF v.raised
           THEN error' = v /\ status' = 1 /\ run_pc' = "exit"
           ELSE /\ UNCHANGED error
                /\ \E built \in BOOLEAN :
                     IF built
                     THEN run_pc' = "step1" /\ UNCHANGED status
                     ELSE run_pc' = "exit" /\ status' = 1
    /\ UNCHANGED <<cli_frame, network, results, last_step>>

\* lines 167-172: an exception in a step is caught, recorded, and the
\* results are returned with success still false
Caught(step, message, contacted) ==
    /\ results' = [results EXCEPT !.errors = Append(@, message)]
    /\ network' = contacted
    /\ last_step' = step
    /\ run_pc' = "return"
    /\ UNCHANGED error

\* line 71
Step1 ==
    /\ run_pc = "step1"
    /\ LET v == validate_required(config)
       IN  IF v.raised
           THEN Caught("step1", v.message, network)
           ELSE /\ run_pc' = "step1_5"
                /\ UNCHANGED <<network, error, results, last_step>>
    /\ UNCHANGED <<cli_frame, status>>

\* line 76
Step1_5 ==
    /\ run_pc = "step1_5"
    /\ \E raises \in BOOLEAN :
         IF raises
         THEN Caught("step1_5", "exception", network)
         ELSE /\ run_pc' = "step2"
              /\ UNCHANGED <<network, error, results, last_step>>
    /\ UNCHANGED <<cli_frame, status>>

\* lines 80-87: the leads come from upstream or from the cache
Step2 ==
    /\ run_pc = "step2"
    /\ \E live \in BOOLEAN :
         LET contacted == IF live THEN Append(network, "apollo") ELSE network
         IN  \/ Caught("step2", "exception", contacted)
             \/ \E n \in 0..MaxPipelineLeads :
                  /\ results' = [results EXCEPT !.leads_fetched = n]
                  /\ network' = contacted
                  /\ IF n = 0
                     THEN run_pc' = "return" /\ last_step' = "step2"
                     ELSE run_pc' = "step3" /\ UNCHANGED last_step
                  /\ UNCHANGED error
    /\ UNCHANGED <<cli_frame, status>>

\* lines 91-98
Step3 ==
    /\ run_pc = "step3"
    /\ \/ Caught("step3", "exception", network)
       \/ \E m \in 0..results.leads_fetched :
            /\ results' = [results EXCEPT !.leads_processed = m]
            /\ IF m = 0
               THEN run_pc' = "return" /\ last_step' = "step3"
               ELSE run_pc' = "step4" /\ UNCHANGED last_step
            /\ UNCHANGED <<network, error>>
    /\ UNCHANGED <<cli_frame, status>>

\* lines 102-108: a failed push is a warning, not a failure of the run
Step4 ==
    /\ run_pc = "step4"
    /\ \/ Caught("step4", "exception", Append(network, "airtable"))
       \/ \E airtable_success \in BOOLEAN :
            /\ results' =
                 IF airtable_success THEN results
                 ELSE [results EXCEPT
                          !.errors = Append(@, "Airtable push failed")]
            /\ network' = Append(network, "airtable")
            /\ run_pc' = "step5"
            /\ UNCHANGED <<error, last_step>>
    /\ UNCHANGED <<cli_frame, status>>

\* lines 112-115: one email for each lead
Step5 ==
    /\ run_pc = "step5"
    /\ \/ Caught("step5", "exception", Append(network, "openai"))
       \/ /\ results' = [results EXCEPT
                            !.emails_generated = results.leads_processed]
          /\ network' = Append(network, "openai")
          /\ run_pc' = "step6"
          /\ UNCHANGED <<error, last_step>>
    /\ UNCHANGED <<cli_frame, status>>

\* a Python bool, as an argument that may also be None
Bool(b) == [bool |-> b]

\* lines 56-57: the setting is used only when the argument is None
preview_mode(preview_only) ==
    IF preview_only = None THEN PREVIEW_ONLY ELSE preview_only.bool

\* lines 118-165; main.py 289 passes args.preview_only, which argparse's
\* store_true makes False when the flag is absent
Step6 ==
    /\ run_pc = "step6"
    /\ IF preview_mode(Bool(entry.preview_only)) \/ entry.no_email
           \/ results.emails_generated = 0
       THEN /\ results' = [results EXCEPT !.emails_sent = 0, !.success = TRUE]
            /\ last_step' = "step6"
            /\ run_pc' = "return"
            /\ UNCHANGED <<network, error>>
       ELSE \/ Caught("step6", "exception", Append(network, "gmail"))
            \/ \E successful_sends \in 0..results.emails_generated :
                 /\ results' = [results EXCEPT !.emails_sent = successful_sends,
                                               !.success = TRUE]
                 /\ network' = Append(network, "gmail")
                 /\ last_step' = "step6"
                 /\ run_pc' = "return"
                 /\ UNCHANGED error
    /\ UNCHANGED <<cli_frame, status>>

\* faulty variant: only a recorded error makes the run fail
exit_status_by_errors(res) == IF res.errors # <<>> THEN 1 ELSE 0

\* main.py 295-296, and the end of main otherwise
exit_status(res) == IF ~res.success THEN 1 ELSE 0

Exit ==
    /\ run_pc = "return"
    /\ status' = exit_status(results)
    /\ run_pc' = "exit"
    /\ UNCHANGED <<cli_frame, network, error, results, last_step>>

\* main.py 298-300: the user interrupts the run
Interrupt ==
    /\ entry.name = "cli"
    /\ run_pc \notin {"start", "return", "exit"}
    /\ status' = 1
    /\ last_step' = run_pc
    /\ run_pc' = "exit"
    /\ UNCHANGED <<cli_frame, network, error, results>>

-----------------------------------------------------------------------------
(* AirtableAPI: upsert of leads into the leads table                      *)

\* line 117: f"{first_name} {last_name}".strip(), for names without spaces
full_name(lead) ==
    IF lead.first_name = "" THEN lead.last_name
    ELSE IF lead.last_name = "" THEN lead.first_name
    ELSE lead.first_name \o " " \o lead.last_name

\* prepare_data_for_airtable: the fields the lookups read
prepare_record(lead) ==
    [Name |-> full_name(lead), Email |-> lead.email,
     Company |-> lead.company_name]

\* filterByFormula "{field} = 'value'", then records[0]: the index of the
\* first record whose field has the value, 0 if there is none
first_record(records, field, value) ==
    LET hits == {i \in DOMAIN records : records[i][field] = value}
    IN  IF hits = {} THEN 0 ELSE CHOOSE i \in hits : \A j \in hits : i <= j

\* the outcome of the requests of one upsert: status 200 or not
Responses == [by_email : BOOLEAN, by_name : BOOLEAN, write : BOOLEAN]

\* lines 28-66: by Email first; the fallback filters the Name field by the
\* company name. 0 stands for None.
find_existing_record(records, email, company_name, responses) ==
    LET by_email == IF email # "" /\ responses.by_email
                    THEN first_record(records, "Email", email)
                    ELSE 0
        by_name  == IF company_name # "" /\ responses.by_name
                    THEN first_record(records, "Name", company_name)
                    ELSE 0
    IN  IF by_email # 0 THEN by_email ELSE by_name

\* lines 68-108: PATCH the record found, POST a new one otherwise
upsert_record(records, record_data, responses) ==
    LET existing_id == find_existing_record(records, record_data.Email,
                                            record_data.Company, responses)
    IN  IF ~responses.write
        THEN [records |-> records, ok |-> FALSE]
        ELSE IF existing_id # 0
        THEN [records |-> [records EXCEPT ![existing_id] = record_data],
              ok |-> TRUE]
        ELSE [records |-> Append(records, record_data), ok |-> TRUE]

\* bound: most records the table holds
MaxRecords == 3

\* bound: most leads of one write_leads_to_airtable call
MaxWrite == 2

\* a lead with an email, a lead without, and a lead without whose name is
\* its company's name
SampleStoreLeads ==
    { [first_name |-> "Ann", last_name |-> "Lee", email |-> "ann@acme.com",
       company_name |-> "Acme"],
      [first_name |-> "Bob", last_name |-> "Ray", email |-> "",
       company_name |-> "Acme"],
      [first_name |-> "Acme", last_name |-> "", email |-> "",
       company_name |-> "Acme"] }

WriteBatches ==
    UNION {[1..n -> SampleStoreLeads] : n \in 1..MaxWrite}

\* lines 171-176: a call starts its loop over the records
WriteLeadsToAirtable ==
    /\ pending_leads = <<>>
    /\ \E batch \in WriteBatches : pending_leads' = batch
    /\ UNCHANGED <<retry_delay, last_req, client_vars, score_vars, region_vars,
                   entry_vars, table, written, requests_ok, queue_vars>>

\* lines 178-181: one iteration of the loop
UpsertNext ==
    /\ pending_leads # <<>>
    /\ \E responses \in Responses :
         LET lead == Head(pending_leads)
             done == upsert_record(table, prepare_record(lead), responses)
         IN  /\ Len(done.records) <= MaxRecords
             /\ table' = done.records
             /\ written' = IF done.ok THEN written \cup {lead} ELSE written
             /\ requests_ok' = (requests_ok /\ responses.by_email
                                /\ responses.by_name /\ responses.write)
    /\ pending_leads' = Tail(pending_leads)
    /\ UNCHANGED <<retry_delay, last_req, client_vars, score_vars, region_vars,
                   entry_vars, queue_vars>>

-----------------------------------------------------------------------------
(* The Emails table and its two queue senders:                            *)
(* GmailSender.send_emails_from_airtable and send_queue.py                *)

\* no queue sender is running
NoRun == [sender |-> "none", selected |-> <<>>, dry_run |-> FALSE]

\* bound: most records of the Emails table before a run
MaxQueued == 2

\* bound: most records the Emails table grows to
MaxEmailRecords == 3

\* bound: most sends attempted for one record
MaxSendAttempts == 2

\* a queued email, one without address, one not marked for sending, and one
\* without body
SampleEmailRecords ==
    { [To |-> "ann@acme.com", Body |-> "hello", Send_Now |-> TRUE,
       Send_Result |-> "Pending"],
      [To |-> "", Body |-> "hello", Send_Now |-> TRUE,
       Send_Result |-> "Pending"],
      [To |-> "bob@acme.com", Body |-> "hello", Send_Now |-> FALSE,
       Send_Result |-> "Pending"],
      [To |-> "eve@acme.com", Body |-> "", Send_Now |-> TRUE,
       Send_Result |-> "Pending"] }

EmailTables == UNION {[1..n -> SampleEmailRecords] : n \in 1..MaxQueued}

\* the ids (positions) of the records, in table order
record_ids(records) == [i \in 1..Len(records) |-> i]

\* airtable_api.py 377-408: filterByFormula
\* AND({Send Now} = TRUE(), {Send Result} = "Pending"); [] when the request
\* fails
get_emails_to_send(records, ok) ==
    IF ~ok THEN <<>>
    ELSE SelectSeq(record_ids(records),
                   LAMBDA id : /\ records[id].Send_Now
                               /\ records[id].Send_Result = "Pending")

\* send_queue.py 24-60: every record whose Send Now field is set; [] when
\* the request fails
get_pending_emails(records, ok) ==
    IF ~ok THEN <<>>
    ELSE SelectSeq(record_ids(records), LAMBDA id : records[id].Send_Now)

\* airtable_api.py 410-440: PATCH of the record; nothing changes when the
\* request fails
update_email_status(records, email_id, success, ok) ==
    IF ok
    THEN [records EXCEPT ![email_id] =
             [@ EXCEPT !.Send_Now = FALSE,
                       !.Send_Result = IF success THEN "Sent" ELSE "Failed"]]
    ELSE records

\* send_queue.py 101-108: upsert_record of fields without Email or Company:
\* find_existing_record issues no lookup and returns None, so the fields are
\* POSTed as a new record
mark_as_sent(records, ok) ==
    IF ok
    THEN Append(records, [To |-> "", Body |-> "", Send_Now |-> FALSE,
                          Send_Result |-> "Sent Successfully"])
    ELSE records

\* email_sender.py 152-166: a run starts and selects its records
SendEmailsFromAirtable ==
    /\ queue_run = NoRun
    /\ \E ok \in BOOLEAN :
         LET emails == get_emails_to_send(emails_table, ok)
         IN  /\ emails # <<>>
             /\ queue_run' = [sender |-> "send_emails_from_airtable",
                              selected |-> emails, dry_run |-> FALSE]
    /\ UNCHANGED <<retry_delay, last_req, client_vars, score_vars, region_vars,
                   entry_vars, airtable_vars, emails_table, send_attempts>>

\* email_sender.py 170-203: one iteration of the loop
SendNextFromAirtable ==
    /\ queue_run.sender = "send_emails_from_airtable"
    /\ LET email_id == Head(queue_run.selected)
           to_email == emails_table[email_id].To
       IN  IF to_email = ""
           THEN UNCHANGED <<emails_table, send_attempts>>
           ELSE /\ send_attempts[email_id] < MaxSendAttempts
                /\ send_attempts' =
                       [send_attempts EXCEPT ![email_id] = @ + 1]
                /\ \E success \in BOOLEAN, ok \in BOOLEAN :
                     emails_table' = update_email_status(emails_table,
                                                         email_id, success, ok)
    /\ queue_run' = IF Tail(queue_run.selected) = <<>> THEN NoRun
                    ELSE [queue_run EXCEPT !.selected = Tail(@)]
    /\ UNCHANGED <<retry_delay, last_req, client_vars, score_vars, region_vars,
                   entry_vars, airtable_vars>>

\* send_queue.py 132-163: the script validates, then selects its records
SendQueue ==
    /\ queue_run = NoRun
    /\ \E ok \in BOOLEAN, dry_run \in BOOLEAN :
         LET pending_emails == get_pending_emails(emails_table, ok)
         IN  /\ pending_emails # <<>>
             /\ queue_run' = [sender |-> "send_queue",
                              selected |-> pending_emails,
                              dry_run |-> dry_run]
    /\ UNCHANGED <<retry_delay, last_req, client_vars, score_vars, region_vars,
                   entry_vars, airtable_vars, emails_table, send_attempts>>

\* send_queue.py 75-122: one iteration of the loop
SendNextQueued ==
    /\ queue_run.sender = "send_queue"
    /\ LET email_id == Head(queue_run.selected)
           email_data == emails_table[email_id]
       IN  IF email_data.To = "" \/ email_data.Body = "" \/ queue_run.dry_run
           THEN UNCHANGED <<emails_table, send_attempts>>
           ELSE /\ send_attempts[email_id] < MaxSendAttempts
                /\ \E ok \in BOOLEAN :
                     LET records == mark_as_sent(emails_table, ok)
                     IN  /\ Len(records) <= MaxEmailRecords
                         /\ emails_table' = records
                         /\ send_attempts' =
                                [i \in 1..Len(records) |->
                                    IF i = email_id
                                    THEN send_attempts[i] + 1
                                    ELSE IF i <= Len(send_attempts)
                                    THEN send_attempts[i]
                                    ELSE 0]
    /\ queue_run' = IF Tail(queue_run.selected) = <<>> THEN NoRun
                    ELSE [queue_run EXCEPT !.selected = Tail(@)]
    /\ UNCHANGED <<retry_delay, last_req, client_vars, score_vars, region_vars,
                   entry_vars, airtable_vars>>

-----------------------------------------------------------------------------
InitClient ==
    /\ retry_delay = initial_retry_delay
    /\ cache_enabled = TRUE
    /\ cache_expiry_hours = 24
    /\ cache_file = NoFile
    /\ cache_metadata_file = NoFile
    /\ now = 0
    /\ last_req = NoRequest
    /\ pc = "idle"
    /\ call = EmptyDict
    /\ all_leads = <<>>
    /\ page = 1
    /\ contacts = <<>>
    /\ has_more = FALSE
    /\ events = <<>>
    /\ ret = <<>>
    /\ loaded = <<>>
    /\ saved = EmptyDict

InitSize ==
    /\ size_in = 0
    /\ size_out = calculate_company_size_score(0)

\* no scoring call is under way
InitScoring ==
    /\ industry_in = None
    /\ industry_out = NotCalled
    /\ lead_in = EmptyDict
    /\ total_out = NotCalled

InitProcIdle ==
    /\ proc_pc = "start"
    /\ leads_arg = <<>>
    /\ min_score = 600
    /\ ranked_leads = <<>>
    /\ filtered_leads = <<>>
    /\ summary = EmptyDict

InitRegionIdle ==
    /\ location_in = None
    /\ region_out = NotCalled

\* an empty leads table and no call in progress
InitStoreIdle ==
    /\ table = <<>>
    /\ pending_leads = <<>>
    /\ written = {}
    /\ requests_ok = TRUE
    /\ emails_table = <<>>
    /\ queue_run = NoRun
    /\ send_attempts = <<>>

\* no entry point has started; every required setting is set
InitEntryIdle ==
    /\ config = [var \in RequiredNames |-> Str(<<"k">>)]
    /\ entry = [name |-> "cli", preview_only |-> FALSE, no_email |-> FALSE]
    /\ run_pc = "exit"
    /\ network = <<>>
    /\ error = NoError
    /\ results = NoResults
    /\ last_step = "none"
    /\ status = 0
    /\ PREVIEW_ONLY = TRUE

Init ==
    /\ InitClient /\ InitSize /\ InitScoring /\ InitProcIdle
    /\ InitRegionIdle /\ InitEntryIdle /\ InitStoreIdle

NextRequest == MakeRequest

SpecRequest == Init /\ [][NextRequest]_vars

NextCache == SaveToCache \/ LoadFromCache \/ ClearCache \/ SetCacheSettings \/ Tick

SpecCache == Init /\ [][NextCache]_vars

NextFetch == FetchLeads \/ FetchPage \/ ProcessItem \/ Return \/ Tick

SpecFetch == Init /\ [][NextFetch]_vars

NextScore == ScoreSize

SpecScore == Init /\ [][NextScore]_vars

\* a call of calculate_industry_score with any of the industries
InitIndustry ==
    /\ InitClient
    /\ InitEntryIdle
    /\ InitStoreIdle
    /\ InitSize
    /\ InitProcIdle
    /\ InitRegionIdle
    /\ industry_in \in Industries
    /\ industry_out = NotCalled
    /\ lead_in = EmptyDict
    /\ total_out = NotCalled

NextIndustry == ScoreIndustry

SpecIndustry == InitIndustry /\ [][NextIndustry]_vars

\* a call of calculate_total_score with any of the leads
InitTotal ==
    /\ InitClient
    /\ InitEntryIdle
    /\ InitStoreIdle
    /\ InitSize
    /\ InitProcIdle
    /\ InitRegionIdle
    /\ industry_in = None
    /\ industry_out = NotCalled
    /\ lead_in \in SampleLeads
    /\ total_out = NotCalled

NextTotal == ScoreLead

SpecTotal == InitTotal /\ [][NextTotal]_vars

\* a call of process_leads with any batch and threshold
InitProcess ==
    /\ InitClient
    /\ InitEntryIdle
    /\ InitStoreIdle
    /\ InitSize
    /\ InitRegionIdle
    /\ industry_in = None
    /\ industry_out = NotCalled
    /\ lead_in = EmptyDict
    /\ total_out = NotCalled
    /\ proc_pc = "start"
    /\ leads_arg \in Batches
    /\ min_score \in MinScores
    /\ ranked_leads = <<>>
    /\ filtered_leads = <<>>
    /\ summary = EmptyDict

NextProcess == RankLeads \/ FilterLeads \/ Summarise

SpecProcess == InitProcess /\ [][NextProcess]_vars

\* a direct call of get_lead_summary with any of the scored batches
InitSummary ==
    /\ InitClient
    /\ InitEntryIdle
    /\ InitStoreIdle
    /\ InitSize
    /\ InitScoring
    /\ InitRegionIdle
    /\ proc_pc = "summary"
    /\ leads_arg \in SummaryBatches
    /\ min_score = 0
    /\ ranked_leads = <<>>
    /\ filtered_leads = <<>>
    /\ summary = EmptyDict

NextSummary == GetLeadSummary

SpecSummary == InitSummary /\ [][NextSummary]_vars

\* a call of _determine_region with any of the locations
InitRegion ==
    /\ InitClient
    /\ InitEntryIdle
    /\ InitStoreIdle
    /\ InitSize
    /\ InitScoring
    /\ InitProcIdle
    /\ location_in \in Locations
    /\ region_out = NotCalled

NextRegion == DetermineRegion

SpecRegion == InitRegion /\ [][NextRegion]_vars

\* an entry point starts under any configuration
InitEntry ==
    /\ InitClient /\ InitSize /\ InitScoring /\ InitProcIdle
    /\ InitRegionIdle /\ InitStoreIdle
    /\ config \in Configs
    /\ entry \in EntryPoints
    /\ run_pc = "start"
    /\ network = <<>>
    /\ error = NoError
    /\ results = NoResults
    /\ last_step = "none"
    /\ status = 0
    /\ PREVIEW_ONLY \in BOOLEAN

NextEntry ==
    \/ LambdaFetchLeads
    \/ LambdaStoreLeads
    \/ LambdaGenerateEmails
    \/ LambdaSendEmails
    \/ Construct
    \/ Step1
    \/ Step1_5
    \/ Step2
    \/ Step3
    \/ Step4
    \/ Step5
    \/ Step6
    \/ Exit
    \/ Interrupt

SpecEntry == InitEntry /\ [][NextEntry]_vars

NextAirtable == WriteLeadsToAirtable \/ UpsertNext

SpecAirtable == Init /\ [][NextAirtable]_vars

\* an Emails table filled by the pipeline, before any queue sender has run
InitQueue ==
    /\ InitClient /\ InitSize /\ InitScoring /\ InitProcIdle
    /\ InitRegionIdle /\ InitEntryIdle
    /\ table = <<>>
    /\ pending_leads = <<>>
    /\ written = {}
    /\ requests_ok = TRUE
    /\ emails_table \in EmailTables
    /\ queue_run = NoRun
    /\ send_attempts = [i \in 1..Len(emails_table) |-> 0]

NextQueue ==
    \/ SendEmailsFromAirtable
    \/ SendNextFromAirtable
    \/ SendQueue
    \/ SendNextQueued

SpecQueue == InitQueue /\ [][NextQueue]_vars

Next ==
    \/ FetchLeads
    \/ FetchPage
    \/ ProcessItem
    \/ Return
    \/ Tick
    \/ SaveToCache
    \/ ClearCache
    \/ SetCacheEnabled

Spec == Init /\ [][Next]_vars

-----------------------------------------------------------------------------
\* C1: if the first N-1 attempts of a call fail and the N-th succeeds
\* (1 <= N <= max_retries), the call returns the N-th attempt's payload and
\* has issued exactly N attempts.
C1_ReturnsFirstSuccess ==
    Len(last_req.responses) = max_retries =>
        \A N \in 1..max_retries :
            ( /\ \A i \in 1..(N - 1) : ~last_req.responses[i].ok
              /\ last_req.responses[N].ok )
            => /\ last_req.result = last_req.responses[N].body
               /\ last_req.attempts = N
               /\ ~last_req.raised

C1_Witness ==
    /\ Len(last_req.responses) = max_retries
    /\ ~last_req.responses[1].ok
    /\ ~last_req.responses[2].ok
    /\ last_req.responses[max_retries] = Ok([data |-> "success"])
    /\ last_req.result = [data |-> "success"]
    /\ last_req.attempts = max_retries

C3_CacheRoundTrip ==
    [][(LoadFromCache /\ cache_enabled /\ Truthy(saved)) =>
          loaded' = IF now - saved.at < cache_expiry_hours * SecondsPerHour
                    THEN saved.leads
                    ELSE <<>>]_vars

\* a load inside the window has returned a two-lead list; the window is open
C3_Witness ==
    /\ cache_enabled
    /\ Truthy(saved)
    /\ Len(saved.leads) = 2
    /\ saved.leads[1] # saved.leads[2]
    /\ loaded = saved.leads
    /\ now > saved.at
    /\ now - saved.at < cache_expiry_hours * SecondsPerHour

\* C4: _is_cache_valid() is true iff the metadata record exists and the
\* time since the recorded write, in hours, is strictly below
\* cache_expiry_hours; with cache_expiry_hours = 0 it is never true.
C4_CacheFreshness ==
    /\ is_cache_valid <=>
          ( /\ cache_metadata_file.exists
            /\ Truthy(saved)
            /\ now - saved.at < cache_expiry_hours * SecondsPerHour )
    /\ cache_metadata_file.exists <=> Truthy(saved)
    /\ cache_expiry_hours = 0 => ~is_cache_valid

\* a cache written this very second under cache_expiry_hours = 0
C4_Witness ==
    /\ cache_metadata_file.exists
    /\ Truthy(saved)
    /\ saved.at = now
    /\ now > 0
    /\ cache_expiry_hours = 0
    /\ ~is_cache_valid
-----------------------------------------------------------------------------
\* the cache slot as the ghost sees it
CachePresent == cache_file.exists

CacheFresh ==
    /\ Truthy(saved)
    /\ now - saved.at < cache_expiry_hours * SecondsPerHour

\* a step that is a call of fetch_leads
FetchLeadsCalled == pc = "idle" /\ pc' \in {"page", "done"}

\* C5: fetch_leads returns at most max_leads leads, for every max_leads >= 0,
\* on the cache-hit path and on the live path.
C5_AtMostMaxLeads == pc = "done" => Len(ret) <= call.max_leads

\* a live fetch has all the leads it was asked for and the page holds
\* another usable item
C5_Witness ==
    /\ pc = "items"
    /\ call.max_leads >= 1
    /\ Len(all_leads) = call.max_leads
    /\ contacts # <<>>
    /\ Truthy(Head(contacts))

\* C6 as stated: with force_refresh false and a present, fresh cache the
\* call issues no upstream request, returns the first min(max_leads, n)
\* cached leads in order and leaves the cache alone.
C6_Original ==
    [][(FetchLeadsCalled /\ ~call'.force_refresh /\ CachePresent /\ CacheFresh)
          => /\ pc' = "done"
             /\ events' = <<>>
             /\ ret' = Prefix(saved.leads, call'.max_leads)
             /\ UNCHANGED <<cache_file, cache_metadata_file>>]_vars

\* C6 amended: the same, provided caching is enabled and the cached list
\* holds at least one lead.
C6_CacheHit ==
    [][(FetchLeadsCalled /\ ~call'.force_refresh /\ CachePresent /\ CacheFresh
            /\ cache_enabled /\ saved.leads # <<>>)
          => /\ pc' = "done"
             /\ events' = <<>>
             /\ ret' = Prefix(saved.leads, call'.max_leads)
             /\ Len(ret') = Min(call'.max_leads, Len(saved.leads))
             /\ UNCHANGED <<cache_file, cache_metadata_file>>]_vars

\* a cache hit that returned the one cached lead although two were asked for
C6_Witness ==
    /\ pc = "done"
    /\ ~call.force_refresh
    /\ call.max_leads = 2
    /\ events = <<>>
    /\ cache_enabled /\ CachePresent /\ CacheFresh
    /\ Len(saved.leads) = 1
    /\ ret = saved.leads
    /\ now > saved.at

C8_Original ==
    [][FetchLeadsCalled
          => /\ (pc' = "page") <=>
                    (call'.force_refresh \/ ~CachePresent \/ ~CacheFresh)
             /\ call'.force_refresh => ~call'.cache_read]_vars

\* C8 amended: for max_leads >= 1 a live fetch, starting with page 1, is
\* performed exactly when force_refresh is true or the cache yields no lead
\* (caching disabled, cache missing, expired or empty); the cache is read
\* exactly when force_refresh is false; with max_leads = 0 nothing is
\* requested from upstream.
C8_LiveFetchWhen ==
    [][FetchLeadsCalled
          => /\ (pc' = "page") <=>
                    /\ call'.max_leads >= 1
                    /\ \/ call'.force_refresh
                       \/ ~cache_enabled
                       \/ ~CachePresent
                       \/ ~CacheFresh
                       \/ saved.leads = <<>>
             /\ pc' = "page" => page' = 1 /\ events' = <<>>
             /\ pc' = "done" => events' = <<>>
             /\ call'.cache_read <=> ~call'.force_refresh]_vars

\* page 1 has been requested by a forced fetch while the cache was fresh
C8_Witness ==
    /\ pc = "items"
    /\ call.force_refresh
    /\ ~call.cache_read
    /\ cache_enabled /\ CachePresent /\ CacheFresh
    /\ saved.leads # <<>>
    /\ events = <<[op |-> "search", endpoint |-> "contacts", page |-> 1,
                   per_page |-> call.max_leads, failed |-> FALSE]>>

\* a step in which the enrichment request for the current item has failed
\* on every attempt
EnrichmentFailed ==
    /\ pc = "items"
    /\ Len(events') > Len(events)
    /\ events'[Len(events) + 1].op = "enrich"
    /\ events'[Len(events) + 1].failed

\* C9: when the enrichment call for an item fails after all its retries the
\* item is still appended, with empty company_revenue and company_founded,
\* and the fetch goes on: to the next item of the page, else to the next
\* page if upstream has more and more leads are wanted, else to the return
\* of everything collected.
C9_EnrichmentFailureDegrades ==
    [][EnrichmentFailed =>
          LET lead == [apollo_id |-> Head(contacts).id,
                       company_revenue |-> "", company_founded |-> ""]
              leads == Append(all_leads, lead)
          IN  /\ all_leads' = leads
              /\ IF Tail(contacts) # <<>>
                 THEN pc' = "items" /\ contacts' = Tail(contacts)
                 ELSE IF has_more /\ Len(leads) < call.max_leads
                 THEN pc' = "page" /\ page' = page + 1
                 ELSE pc' = "done" /\ ret' = leads]_vars

\* the first item's enrichment failed, the second page's item was enriched
C9_Witness ==
    /\ pc = "done"
    /\ page = 2
    /\ Len(ret) = 2
    /\ ret[1].company_revenue = "" /\ ret[1].company_founded = ""
    /\ ret[2].company_revenue = "10M"

\* C10 as stated: 0 gives 0.5; [100,300] gives 1.0; [50,99] gives 0.8;
\* [301,500] gives 0.7; every other size gives 0.3, tagged too-small below
\* 50 and too-large above 500.
C10_SizeTable ==
    /\ size_in = 0 => size_out[1] = 50
    /\ (100 <= size_in /\ size_in <= 300) => size_out[1] = 100
    /\ (50 <= size_in /\ size_in <= 99) => size_out[1] = 80
    /\ (301 <= size_in /\ size_in <= 500) => size_out[1] = 70
    /\ (1 <= size_in /\ size_in < 50) => size_out = <<30, "size:too-small">>
    /\ size_in > 500 => size_out = <<30, "size:too-large">>

\* some key of industry_weights occurs in the lower-cased text
MatchesKey(chars) ==
    \E i \in DOMAIN industry_weights :
        contains(lower(chars), industry_weights[i].key)

\* C11: a non-empty industry text in which no key of the weight table
\* occurs scores exactly (0.3, "industry:unknown"); an empty or missing
\* industry scores (0.5, "industry:unknown"); every call returns a score
\* and a reason.
C11_UnknownIndustry ==
    industry_out # NotCalled =>
        /\ (industry_in = None \/ industry_in = Str(<<>>))
               => industry_out = <<50, "industry:unknown">>
        /\ (industry_in # None /\ industry_in # Str(<<>>)
               /\ ~MatchesKey(industry_in.str))
               => industry_out = <<30, "industry:unknown">>
        /\ Len(industry_out) = 2
        /\ industry_out[1] \in 0..100

\* "non profit": both words of the last key occur, the key does not
C11_Witness ==
    /\ industry_in = Str(<<"n","o","n"," ","p","r","o","f","i","t">>)
    /\ industry_out = <<30, "industry:unknown">>

\* the three sub-scores of the lead scored, in hundredths
SubScores ==
    << calculate_industry_score(lead_in.company_industry)[1],
       calculate_company_size_score(lead_in.company_size)[1],
       calculate_region_score(lead_in.region)[1] >>

\* C12: the score is industry*0.4 + size*0.3 + region*0.3 rounded to the
\* nearest thousandth, and lies between 0 and 1.
C12_WeightedTotal ==
    total_out # NotCalled =>
        LET exact == SubScores[1] * 40 + SubScores[2] * 30 + SubScores[3] * 30
            score == total_out[1]
        IN  /\ 10 * score - exact \in -5..5
            /\ 0 <= score /\ score <= 1000

\* fintech 0.8, size 400 scores 0.7, Europe 0.9: 0.32 + 0.21 + 0.27
C12_Witness ==
    /\ total_out # NotCalled
    /\ SubScores = <<80, 70, 90>>
    /\ total_out[1] = 800

\* the tags of the three criteria for the lead scored, in the fixed order
CriterionTags ==
    << calculate_industry_score(lead_in.company_industry)[2],
       calculate_company_size_score(lead_in.company_size)[2],
       calculate_region_score(lead_in.region)[2] >>

\* C13: the reasons are the tags, prefixed with "+", of exactly the criteria
\* whose sub-score is strictly above 0.7, in the order industry, size,
\* region; so there are at most three, and none when every sub-score is at
\* most 0.7, although the total is not zero.
C13_Reasons ==
    total_out # NotCalled =>
        LET reasons == total_out[2]
            strong == {k \in 1..3 : SubScores[k] > 70}
            place(k) == Cardinality({j \in strong : j <= k})
        IN  /\ Len(reasons) = Cardinality(strong)
            /\ \A k \in strong : reasons[place(k)] = "+" \o CriterionTags[k]
            /\ Len(reasons) <= 3
            /\ (strong = {}) => (reasons = <<>> /\ total_out[1] > 0)

\* healthcare and a company of 400 score exactly 0.7 each: no reason at all
C13_Witness ==
    /\ total_out # NotCalled
    /\ SubScores = <<70, 70, 50>>
    /\ total_out = <<640, <<>> >>

\* a lead without the fields rank_leads adds
Original(lead) ==
    [f \in DOMAIN lead \ {"score", "score_reasons", "industry_score",
                          "company_size_score", "region_score"} |-> lead[f]]

Ids(batch) == [i \in DOMAIN batch |-> batch[i].apollo_id]

Bijections(n) ==
    {f \in [1..n -> 1..n] : \A i, j \in 1..n : i # j => f[i] # f[j]}

\* C14: rank_leads returns the leads it was given, each once, in
\* non-increasing order of score, and leads of equal score in the order
\* they had in the input.
C14_RankStable ==
    [][(proc_pc = "start" /\ proc_pc' = "ranked") =>
          /\ Len(ranked_leads') = Len(leads_arg)
          /\ \E f \in Bijections(Len(leads_arg)) :
                /\ \A k \in DOMAIN leads_arg :
                      Original(ranked_leads'[k]) = leads_arg[f[k]]
                /\ \A j, k \in DOMAIN leads_arg :
                      j < k =>
                        /\ ranked_leads'[j].score >= ranked_leads'[k].score
                        /\ ranked_leads'[j].score = ranked_leads'[k].score
                              => f[j] < f[k]]_vars

\* a3 and a1 tie at 1.0 and overtake a2 without changing places
C14_Witness ==
    /\ proc_pc = "ranked"
    /\ Ids(leads_arg) = <<"a2", "a3", "a1">>
    /\ Ids(ranked_leads) = <<"a3", "a1", "a2">>
    /\ ranked_leads[1].score = ranked_leads[2].score

\* C15: filter_high_quality_leads keeps exactly the leads whose score is
\* at least the threshold, in the order given; threshold 0 keeps all of
\* them, a threshold above every score keeps none.
C15_FilterInclusive ==
    proc_pc \in {"filtered", "done"} =>
        LET kept == {i \in DOMAIN ranked_leads :
                        ranked_leads[i].score >= min_score}
            place(i) == Cardinality({j \in kept : j <= i})
        IN  /\ Len(filtered_leads) = Cardinality(kept)
            /\ \A i \in kept : filtered_leads[place(i)] = ranked_leads[i]
            /\ min_score = 0 => filtered_leads = ranked_leads
            /\ (\A i \in DOMAIN ranked_leads : ranked_leads[i].score < min_score)
                  => filtered_leads = <<>>

\* a4 scores exactly the threshold 0.6 and is kept, a2 (0.4) is dropped
C15_Witness ==
    /\ proc_pc = "filtered"
    /\ min_score = 600
    /\ Ids(ranked_leads) = <<"a1", "a4", "a2">>
    /\ ranked_leads[2].score = 600
    /\ Ids(filtered_leads) = <<"a1", "a4">>

\* the two leads of the worked example
ExampleBatch ==
    << [apollo_id |-> "a1", company_size |-> 150,
        company_industry |-> Str(<<"S","o","f","t","w","a","r","e">>),
        region |-> Str(<<"N","o","r","t","h"," ","A","m","e","r","i","c","a">>)],
       [apollo_id |-> "a2", company_size |-> 700,
        company_industry |-> Str(<<"R","e","t","a","i","l">>),
        region |-> Str(<<"O","t","h","e","r">>)] >>

ExampleDone ==
    /\ proc_pc = "done"
    /\ min_score = 600
    /\ Len(leads_arg) = 2
    /\ [i \in 1..2 |-> Original(leads_arg[i])] = ExampleBatch

\* C16: (Software, 150, North America) scores 1.0 with the three reasons,
\* (Retail, 700, Other) scores 0.40 with none, and process_leads with
\* min_score 0.6 returns the first lead only.
C16_WorkedExample ==
    ExampleDone =>
        /\ leads_arg[1].score = 1000
        /\ leads_arg[1].score_reasons =
              <<"+industry:software", "+size:100-300", "+region:north america">>
        /\ leads_arg[2].score = 400
        /\ leads_arg[2].score_reasons = <<>>
        /\ filtered_leads = <<leads_arg[1]>>

C16_Witness ==
    /\ ExampleDone
    /\ Ids(filtered_leads) = <<"a1">>

\* C18 as stated: the summary of no leads reports count 0 and mean, max
\* and min 0; the summary of some leads reports their number and the mean,
\* max and min of their scores to three decimals.
C18_Summary ==
    proc_pc = "done" =>
        LET scores == [i \in DOMAIN filtered_leads |-> filtered_leads[i].score]
            n == Len(filtered_leads)
        IN  /\ {"total_leads", "average_score", "top_score", "bottom_score"}
                  \subseteq DOMAIN summary
            /\ Get(summary, "total_leads", -1) = n
            /\ n = 0 =>
                  /\ Get(summary, "average_score", -1) = 0
                  /\ Get(summary, "top_score", -1) = 0
                  /\ Get(summary, "bottom_score", -1) = 0
            /\ n > 0 =>
                  /\ 2 * (n * Get(summary, "average_score", -1) - sum(scores))
                        \in (0 - n)..n
                  /\ \A i \in 1..n : scores[i] <= Get(summary, "top_score", -1)
                  /\ \E i \in 1..n : scores[i] = Get(summary, "top_score", -1)
                  /\ \A i \in 1..n : scores[i] >= Get(summary, "bottom_score", -1)
                  /\ \E i \in 1..n : scores[i] = Get(summary, "bottom_score", -1)

-----------------------------------------------------------------------------
\* the required settings that validate_required finds unset or empty
MissingSettings == {var \in RequiredNames : falsy(config[var])}

\* C19: when a required setting is unset or empty, no entry point contacts
\* an external service, and once the entry point has ended it has raised the
\* one error whose message names every missing setting.
C19_ValidationFirst ==
    MissingSettings # {} =>
        /\ network = <<>>
        /\ run_pc = "exit" =>
             /\ error.raised
             /\ {error.missing_vars[i] : i \in DOMAIN error.missing_vars}
                    = MissingSettings
             /\ error.message = "Missing required environment variables: "
                                    \o join(error.missing_vars, ", ")

\* what the run recorded as a failure of the pipeline
PipelineFailed ==
    \/ MissingSettings # {}
    \/ last_step = "step2" /\ results.leads_fetched = 0
    \/ last_step = "step3" /\ results.leads_processed = 0
    \/ \E i \in DOMAIN results.errors : results.errors[i] = "exception"

\* C20: a finished command-line run has status 1 whenever the pipeline
\* failed (a required setting missing, no lead fetched, no lead kept by the
\* processing, or an exception in a step), and has status 0 only when
\* run_pipeline reached its last step and set success.
C20_ExitStatus ==
    (entry.name = "cli" /\ run_pc = "exit") =>
        /\ PipelineFailed => status = 1
        /\ status = 0 => (results.success /\ last_step = "step6")
        /\ status \in {0, 1}

\* leads were fetched but none reached min_score
C20_Witness ==
    /\ entry.name = "cli"
    /\ run_pc = "exit"
    /\ last_step = "step3"
    /\ results.leads_fetched > 0
    /\ results.leads_processed = 0
    /\ results.errors = <<>>
    /\ status = 1

-----------------------------------------------------------------------------
\* C21: a command-line run contacts Gmail only when Config.PREVIEW_ONLY is
\* false and neither --preview-only nor --no-email was given; with preview
\* mode in effect, by the flag or by the setting, or with --no-email, no
\* email is sent and emails_sent is 0.
C21_SendingOffByDefault ==
    entry.name = "cli" =>
        /\ (\E i \in DOMAIN network : network[i] = "gmail")
               => (~PREVIEW_ONLY /\ ~entry.preview_only /\ ~entry.no_email)
        /\ (PREVIEW_ONLY \/ entry.preview_only \/ entry.no_email)
               => results.emails_sent = 0

-----------------------------------------------------------------------------
\* a lead the lookup is meant to find: a non-empty email or, failing that,
\* a non-empty name and company
HasKey(lead) ==
    lead.email # "" \/ (full_name(lead) # "" /\ lead.company_name # "")

\* C22: against a store whose every request has succeeded, the upsert of a
\* lead that an earlier upsert wrote and that has an email or a name and a
\* company creates no second record: the table keeps its length.
C22_UpsertNoDuplicate ==
    [][(pending_leads # <<>> /\ pending_leads' = Tail(pending_leads)
            /\ requests_ok'
            /\ Head(pending_leads) \in written
            /\ HasKey(Head(pending_leads)))
         => Len(table') = Len(table)]_vars

-----------------------------------------------------------------------------
RECURSIVE pow2(_)
pow2(n) == IF n = 0 THEN 1 ELSE 2 * pow2(n - 1)

\* the attempts of a call that were made, failed, and were not the last
\* allowed one
FailedNonFinal(responses) ==
    {i \in 1..(max_retries - 1) : \A j \in 1..i : ~responses[j].ok}

\* C23: retry_delay starts at 1 and no call resets or decreases it: every
\* _make_request call multiplies it by 2 for each of its failed non-final
\* attempts, so it is always 1 times 2 for every such attempt made so far.
C23_BackoffPersists ==
    /\ retry_delay = initial_retry_delay
    /\ [][/\ retry_delay' >= retry_delay
          /\ retry_delay' = retry_delay
                 * pow2(Cardinality(FailedNonFinal(last_req'.responses)))]_vars

\* a call on a client that has retried before: its first sleep is longer
\* than the initial delay
C23_Witness ==
    /\ last_req.sleeps # <<>>
    /\ Head(last_req.sleeps) > initial_retry_delay
    /\ retry_delay = 2 * Head(last_req.sleeps)

\* C24: one _make_request call issues at most max_retries attempts and none
\* after its first success; it sleeps once after each failed attempt but the
\* last allowed one, first for the retry_delay it found and then for twice
\* the sleep before, and leaves retry_delay at twice its last sleep; after
\* the last allowed failed attempt it neither sleeps nor doubles.
C24_RetryStateMachine ==
    [][last_req' # last_req =>
         LET req == last_req'
             successes == {i \in 1..max_retries : req.responses[i].ok}
             first_success ==
                 IF successes = {} THEN max_retries
                 ELSE CHOOSE i \in successes : \A j \in successes : i <= j
         IN  /\ req.attempts <= max_retries
             /\ req.attempts = first_success
             /\ Len(req.sleeps) = req.attempts - 1
             /\ req.sleeps # <<>> => req.sleeps[1] = retry_delay
             /\ \A i \in 1..(Len(req.sleeps) - 1) :
                    req.sleeps[i + 1] = 2 * req.sleeps[i]
             /\ retry_delay' = IF req.sleeps = <<>> THEN retry_delay
                               ELSE 2 * req.sleeps[Len(req.sleeps)]]_vars

\* three failed attempts on a fresh client: sleeps of 1s and 2s, none after
\* the third
C24_Witness ==
    /\ Len(last_req.responses) = max_retries
    /\ \A i \in 1..max_retries : ~last_req.responses[i].ok
    /\ last_req.attempts = max_retries
    /\ last_req.sleeps = <<1, 2>>
    /\ retry_delay = 4

-----------------------------------------------------------------------------
\* the page requests of the running fetch, in the order they were issued
PageRequests == SelectSeq(events, LAMBDA e : e.op = "search")

\* pages 1, 2, 3, ... each once, with per_page = min(25, max_leads)
PagesInOrder ==
    \A k \in DOMAIN PageRequests :
        /\ PageRequests[k].page = k
        /\ PageRequests[k].per_page = Min(page_size_cap, call.max_leads)

\* no page is requested once the total has reached max_leads, a page came
\* back empty, or a page did not signal has_more
StopsInTime ==
    /\ Len(all_leads) <= call.max_leads
    /\ (pc = "page" /\ page > 1) => (has_more /\ Len(all_leads) < call.max_leads)

\* C25: a live fetch requests pages 1, 2, 3, ... each once with
\* per_page = min(25, max_leads), requests no page after a stop condition,
\* and every inter-page delay lies between two page requests: none follows
\* the last request.
C25_LivePagination ==
    pc \in {"page", "items", "done"} =>
        /\ PagesInOrder
        /\ pc # "done" => StopsInTime
        /\ \A i \in DOMAIN events :
              events[i].op = "sleep" =>
                  /\ \E j \in 1..(i - 1) : events[j].op = "search"
                  /\ pc = "done" =>
                       \E j \in (i + 1)..Len(events) : events[j].op = "search"

-----------------------------------------------------------------------------
\* key i of the table occurs in the lower-cased text
KeyOccurs(chars, i) == contains(lower(chars), industry_weights[i].key)

\* C26: for a non-empty industry text in which a table key occurs, the
\* result is the weight and the tag of the first such key in table order.
C26_FirstKeyWins ==
    (industry_out # NotCalled /\ industry_in # None
        /\ industry_in # Str(<<>>)) =>
        \A i \in DOMAIN industry_weights :
            ( /\ KeyOccurs(industry_in.str, i)
              /\ \A j \in 1..(i - 1) : ~KeyOccurs(industry_in.str, j) )
            => industry_out = <<industry_weights[i].weight,
                                "industry:" \o Text(industry_weights[i].key)>>

\* "RetailSaaS": saas comes first in the table, though retail is the longer
\* key, has the lower weight and occurs earlier in the text
C26_Witness ==
    /\ industry_in = Str(<<"R","e","t","a","i","l","S","a","a","S">>)
    /\ industry_out = <<100, "industry:saas">>

-----------------------------------------------------------------------------
\* the buckets a company size is counted in
BucketsOf(size) ==
    IF size = 100 THEN {"50-100", "100-300"}
    ELSE IF size = 300 THEN {"100-300", "300-500"}
    ELSE IF 50 <= size /\ size < 100 THEN {"50-100"}
    ELSE IF 100 < size /\ size < 300 THEN {"100-300"}
    ELSE IF 300 < size /\ size <= 500 THEN {"300-500"}
    ELSE {}

\* C27: in the company-size histogram a size of exactly 100 is counted in
\* "50-100" and in "100-300", a size of exactly 300 in "100-300" and in
\* "300-500", every other size of [50,500] in one bucket and every size
\* outside [50,500] in none.
C27_Histogram ==
    (proc_pc = "done" /\ leads_arg # <<>>) =>
        /\ DOMAIN summary.company_sizes = {"50-100", "100-300", "300-500"}
        /\ \A name \in DOMAIN summary.company_sizes :
              summary.company_sizes[name] =
                  Cardinality({i \in DOMAIN leads_arg :
                      name \in BucketsOf(leads_arg[i].company_size)})

\* sizes 100 and 300: four bucket entries for two leads
C27_Witness ==
    /\ proc_pc = "done"
    /\ Len(leads_arg) = 2
    /\ leads_arg[1].company_size = 100
    /\ leads_arg[2].company_size = 300
    /\ summary.total_leads = 2
    /\ summary.company_sizes["50-100"] + summary.company_sizes["100-300"]
           + summary.company_sizes["300-500"] = 4

-----------------------------------------------------------------------------
\* a step in which a live fetch that holds at least one lead requests a
\* later page, gets no item, and returns
LaterPageEndsFetch ==
    /\ pc = "page" /\ page > 1 /\ all_leads # <<>>
    /\ pc' = "done"

\* the fetch returns the leads of the earlier pages and has written them,
\* with the time of the write, to the cache
TruncatedListCached ==
    /\ ret' = all_leads
    /\ cache_file'.exists
    /\ json_load_leads(cache_file'.text) = all_leads
    /\ saved' = [leads |-> all_leads, at |-> now]

\* a non-forced fetch_leads call on a fresh slot returns a prefix of the
\* slot and contacts nothing
ServedFromSlot ==
    (FetchLeadsCalled /\ ~call'.force_refresh /\ CachePresent /\ CacheFresh
        /\ saved.leads # <<>>)
    => /\ pc' = "done"
       /\ events' = <<>>
       /\ ret' = Prefix(saved.leads, call'.max_leads)

\* C28 as stated: when the search request for a later page fails after all
\* its retries (or comes back without items), the fetch returns the leads of
\* the earlier pages and caches them, and while that slot is fresh every
\* non-forced fetch returns a prefix of it without contacting upstream.
C28_Original ==
    [][/\ LaterPageEndsFetch => TruncatedListCached
       /\ ServedFromSlot]_vars

\* C28 amended: the same with caching enabled; with caching disabled the
\* truncated list is returned but not cached, and later fetches go upstream.
C28_TruncatedCached ==
    [][/\ LaterPageEndsFetch => ret' = all_leads
       /\ (LaterPageEndsFetch /\ cache_enabled) => TruncatedListCached
       /\ cache_enabled => ServedFromSlot
       /\ (LaterPageEndsFetch /\ ~cache_enabled)
              => UNCHANGED <<cache_file, cache_metadata_file>>]_vars

\* the request for page 2 has failed on every attempt: the one lead of
\* page 1 is returned and is in the cache
C28_Witness ==
    /\ pc = "done"
    /\ cache_enabled
    /\ page = 2
    /\ events # <<>>
    /\ events[Len(events)].op = "search"
    /\ events[Len(events)].failed
    /\ Len(ret) = 1
    /\ call.max_leads > Len(ret)
    /\ json_load_leads(cache_file.text) = ret
    /\ saved = [leads |-> ret, at |-> now]

-----------------------------------------------------------------------------
\* C29: a live fetch issues at most max_leads page requests: every page
\* requested after the first follows a page that added at least one lead, so
\* the number of leads collected is at least the number of earlier pages.
C29_FetchTerminates ==
    pc \in {"page", "items", "done"} =>
        /\ Len(PageRequests) <= call.max_leads
        /\ Len(PageRequests) >= 1 => Len(all_leads) >= Len(PageRequests) - 1

-----------------------------------------------------------------------------
\* C30: no Emails record is sent more than once, and a record for which a
\* send has been attempted is no longer pending once its iteration is over:
\* its Send Now flag is cleared and its Send Result is not "Pending".
C30_SentAtMostOnce ==
    \A id \in DOMAIN emails_table :
        /\ send_attempts[id] <= 1
        /\ send_attempts[id] >= 1 =>
              /\ ~emails_table[id].Send_Now
              /\ emails_table[id].Send_Result # "Pending"
====
